---- MODULE Spec2Model ----
(***************************************************************************)
(* State-machine model of the CortexAlgo desktop agent: the account        *)
(* registry and kill switch (accountManager), the broker token cache       *)
(* (authService), the broker client (topstepClient), the order pipeline    *)
(* (orderExecutionService), the orchestrator (main.js), the cloud channel  *)
(* callbacks and the rate limiter (securityService / cloudApiService).     *)
(*                                                                         *)
(* The program is single-threaded and event driven: one action of the      *)
(* model is one run of a handler from an event to its next await.          *)
(***************************************************************************)
EXTENDS Integers, Sequences, FiniteSets, TLC

\* ------------------------------------------------------------------ bounds
\* directive handlers that may be suspended at an await at the same time
MaxDirectives == 1
\* largest contract count carried by a directive
MaxContracts == 2
\* fills delivered per account (above the cap of the fill list)
MaxFillSeq == 52
\* the model clock runs from 0 to MaxTime ticks
MaxTime == 4
\* largest maxRequests / windowMs of the generic RateLimiter instance
MaxLimit == 2
MaxWindow == 2
\* ticks of the model clock in a quarter of an hour
TicksPerQuarter == 1
\* activateBot calls in one run
MaxActivations == 6
\* checkLimit calls on the generic RateLimiter instance in one run
MaxCalls == 4
\* getAccessToken calls that may be suspended at once, tokens the broker issues
MaxTokenCalls == 2
MaxTokens == 3
\* config.TOKEN_LIFETIME_MS on the scale of the model clock
TokenLifetime == 2
\* refresh exchanges and telemetry posts in one run
MaxRefreshes == 2
MaxTelemetry == 2
\* receipts of a trade directive whose handlers overlap
MaxInFlight == 2
\* fills delivered per account in the registry specification
MaxRegistryFills == 1

\* ------------------------------------------------------- program constants
\* accountManager.addFill keeps the most recent 50 fills
FillCap == 50
\* rateLimiters.activation = new RateLimiter(5, 60 * 60 * 1000)
ActivationMaxRequests == 5
\* order type code sent with every order: 2 = market order
MarketOrderType == 2
\* side codes of the order request: 0 = Buy, 1 = Sell
SideBuy == 0
SideSell == 1
\* parseInt of a string that is no number
NaN == -1

VARIABLES
    accounts,               \* accountManager: accountId -> account state
    masterKillSwitch,       \* accountManager: global trading on/off
    brokerToken,            \* authService: currentToken/tokenExpiryTime against Date.now()
    isInitialized,          \* topstepClient.isInitialized
    initPc,                 \* position of main.initializeTopstepX / topstepClient.initialize
    hub,                    \* signalRService: the User Hub connection
    isTopstepInitialized,   \* main.js flag
    currentState,           \* main.js APP_STATES value
    cloudConnectionState,   \* main.js copy of the cloud channel state
    trayState,              \* the effective state last shown by updateTrayIcon
    mainWindow,             \* main.js: the dashboard window exists
    socket,                 \* cloudApiService: the cloud channel
    directives,             \* handleTradeDirective invocations suspended at an await
    fillSeq,                \* number of Fill events delivered so far, per account id
    now,                    \* Date.now() in ticks
    limiter,                \* a RateLimiter instance (maxRequests, windowMs, requests)
    limiterHist,            \* calls made on it: first call time and number of calls
    activation,             \* rateLimiters.activation.requests
    activationCalls,        \* activateBot calls so far: time, limiter verdict
    activationPending,      \* activateBot calls awaiting their HTTP response
    cloudSession,           \* cloudApiService: botId, accessToken, refreshToken, deviceFingerprint
    auth,                   \* authService: currentToken and tokenExpiryTime
    tokenCalls,             \* getAccessToken calls suspended at an await
    storedTokens,           \* the cloud tokens persisted in the OS keychain
    connectPromise,         \* the promise connectWebSocket returned
    heartbeatTimer,         \* heartbeatInterval is set
    telemetryTimer,         \* telemetryInterval is set
    tokenRefreshTimer,      \* tokenRefreshInterval is set
    telemetry,              \* rateLimiters.telemetry.requests
    tokenRefresh,           \* rateLimiters.tokenRefresh.requests
    refreshes,              \* refresh exchanges so far and the one in flight
    cloudApiCopy,           \* which copy of cloudApiService.js the build loads
    keychainCall,           \* main.js: the storeCloudTokens call suspended at an await
    replaced,               \* cloudApiService: a socket connectWebSocket replaced unclosed
    out                     \* what the last step did: requests issued, notifications, result

registryVars == <<accounts, masterKillSwitch>>
mainVars == <<isTopstepInitialized, currentState, cloudConnectionState, trayState, mainWindow>>
clientVars == <<brokerToken, isInitialized, initPc, hub>>
cloudApiVars == <<now, limiter, limiterHist, activation, activationCalls, activationPending,
                  cloudSession>>
authVars == <<auth, tokenCalls>>
channelVars == <<storedTokens, connectPromise, heartbeatTimer, telemetryTimer,
                 tokenRefreshTimer, telemetry, tokenRefresh, refreshes, cloudApiCopy, keychainCall,
                 replaced>>
vars == <<accounts, masterKillSwitch, brokerToken, isInitialized, initPc, hub,
          isTopstepInitialized, currentState, cloudConnectionState, trayState,
          mainWindow, socket, directives, fillSeq, now, limiter, limiterHist,
          activation, activationCalls, activationPending, cloudSession,
          auth, tokenCalls, storedTokens, connectPromise, heartbeatTimer,
          telemetryTimer, tokenRefreshTimer, telemetry, tokenRefresh, refreshes,
          cloudApiCopy, keychainCall, replaced, out>>

\* ------------------------------------------------------------ small helpers
Min(S) == CHOOSE x \in S : \A y \in S : x <= y
Max(S) == CHOOSE x \in S : \A y \in S : x >= y
Range(s) == {s[i] : i \in 1..Len(s)}

\* ----------------------------------------------------------------- outputs
\* out: the handler that ran last (op), its argument (arg), the HTTP
\* requests it issued (net), the notifications it sent to the window (ui),
\* the events it emitted on the cloud socket (emit) and the value it
\* returned or resolved to (result).
NoArg == [none |-> TRUE]
NoResult == [none |-> TRUE]
Out(op, arg, net, ui, emit, result) ==
    [op |-> op, arg |-> arg, net |-> net, ui |-> ui, emit |-> emit, result |-> result]
Quiet(op) == Out(op, NoArg, <<>>, <<>>, <<>>, NoResult)

\* webContents.send happens only when the window exists
Send(msgs) == IF mainWindow THEN msgs ELSE <<>>

\* ------------------------------------------------- accountManager (registry)
AccountIds == {1, 2}
\* an account object as the broker returns it, and the lists the broker may
\* return
Account(id) == [id |-> id]
AccountLists == {<<Account(1)>>, <<Account(1), Account(2)>>}

\* the fields initializeAccounts sets on every account it stores
NewAccount == [tradingEnabled |-> TRUE, pnl |-> 0, openPositions |-> <<>>,
               recentFills |-> <<>>]
NoAccounts == [id \in {} |-> NewAccount]

\* Object.assign(target, source): the fields of source over those of target
Assign(target, source) ==
    [f \in DOMAIN target \cup DOMAIN source |->
        IF f \in DOMAIN source THEN source[f] ELSE target[f]]

\* mutant of accountState: the account object's own fields win
accountStateAsSupplied(account) == Assign(NewAccount, account)
\* { ...account, tradingEnabled: true, pnl: 0, recentFills: [] }
accountState(account) == Assign(account, NewAccount)

\* initializeAccounts: accounts.set(account.id, accountState) for each entry
\* of the list in turn; the map is not cleared first
initializeAccounts(acc, accountList) ==
    LET ids == {accountList[i].id : i \in DOMAIN accountList}
        last(id) == accountList[Max({i \in DOMAIN accountList : accountList[i].id = id})]
    IN [id \in (DOMAIN acc) \cup ids |->
           IF id \in ids THEN accountState(last(id)) ELSE acc[id]]

\* mutant of updateAccount: an unknown account is created from the updates
updateAccountCreating(acc, accountId, updates) ==
    [id \in DOMAIN acc \cup {accountId} |->
        IF id = accountId
        THEN (IF id \in DOMAIN acc THEN Assign(acc[id], updates) ELSE updates)
        ELSE acc[id]]
\* updateAccount: Object.assign(account, updates) for a known account,
\* nothing for an unknown one
updateAccount(acc, accountId, updates) ==
    IF accountId \notin DOMAIN acc THEN acc
    ELSE [acc EXCEPT ![accountId] = Assign(acc[accountId], updates)]

\* updatePnl
updatePnl(acc, accountId, pnl) == updateAccount(acc, accountId, [pnl |-> pnl])

\* getCumulativePnl: total += account.pnl || 0 over the accounts of the map
RECURSIVE SumPnl(_, _)
SumPnl(acc, ids) ==
    IF ids = {} THEN 0
    ELSE LET id == CHOOSE x \in ids : TRUE
         IN (IF "pnl" \in DOMAIN acc[id] THEN acc[id].pnl ELSE 0)
                + SumPnl(acc, ids \ {id})
getCumulativePnl(acc) == SumPnl(acc, DOMAIN acc)

\* mutant of reset: the accounts are cleared, the master switch is left
resetAccountsOnly == [accounts |-> NoAccounts, masterKillSwitch |-> masterKillSwitch]
\* reset: accounts.clear(), masterKillSwitch = false
reset == [accounts |-> NoAccounts, masterKillSwitch |-> FALSE]

\* mutants of canTrade: the master switch is not consulted; an unknown
\* account may trade
canTradeIgnoringMaster(accountId) ==
    IF accountId \notin DOMAIN accounts THEN FALSE
    ELSE accounts[accountId].tradingEnabled
canTradeUnknownAllowed(accountId) ==
    IF ~masterKillSwitch THEN FALSE
    ELSE IF accountId \notin DOMAIN accounts THEN TRUE
    ELSE accounts[accountId].tradingEnabled

\* canTrade: master switch first, then the account's own flag
canTrade(accountId) ==
    IF ~masterKillSwitch THEN FALSE
    ELSE IF accountId \notin DOMAIN accounts THEN FALSE
    ELSE accounts[accountId].tradingEnabled

\* mutant of setAccountTrading: the flag of every account is set
setAccountTradingForAll(acc, accountId, enabled) ==
    IF accountId \notin DOMAIN acc THEN acc
    ELSE [id \in DOMAIN acc |-> [acc[id] EXCEPT !.tradingEnabled = enabled]]
\* setAccountTrading: the registry after the call (unchanged for an unknown id)
setAccountTrading(acc, accountId, enabled) ==
    IF accountId \notin DOMAIN acc THEN acc
    ELSE [acc EXCEPT ![accountId].tradingEnabled = enabled]

\* mutant of addFill: the fill is pushed at the end
addFillAppending(acc, accountId, fillData) ==
    IF accountId \notin DOMAIN acc THEN acc
    ELSE LET fills == Append(acc[accountId].recentFills, fillData)
         IN [acc EXCEPT ![accountId].recentFills =
                IF Len(fills) > FillCap THEN SubSeq(fills, 1, FillCap) ELSE fills]

\* addFill: unshift, then keep the first 50
addFill(acc, accountId, fillData) ==
    IF accountId \notin DOMAIN acc THEN acc
    ELSE LET fills == <<fillData>> \o acc[accountId].recentFills
         IN [acc EXCEPT ![accountId].recentFills =
                IF Len(fills) > FillCap THEN SubSeq(fills, 1, FillCap) ELSE fills]

\* ------------------------------------------------------- main.js: app state
AppStates == {"connecting", "connected", "disconnected", "deactivated", "warning"}
CloudStates == {"connected", "disconnected", "reconnecting", "error"}

\* mutant of effectiveState: the tray shows a copy of the broker state
effectiveStateCopy(state, cloud) == state

\* updateTrayIcon: the effective state shown for a broker state and a cloud state
effectiveState(state, cloud) ==
    IF state = "connected" /\ cloud # "connected" THEN "warning" ELSE state

\* setState: nothing when the state does not change; otherwise the new state,
\* the tray refreshed, and app-state-changed sent to the window.
\* stateAfter / trayAfter / uiOfSetState give the three effects of setState(new)
\* called in a state whose currentState is cur and tray is tray.
trayAfter(cur, tray, new) ==
    IF cur = new THEN tray ELSE effectiveState(new, cloudConnectionState)
uiOfSetState(cur, new) ==
    IF cur = new THEN <<>> ELSE Send(<<[ch |-> "app-state-changed", state |-> new]>>)

\* ---------------------------------------------- orderExecutionService tables
Null == "null"
Actions == {"ENTRY_LONG", "ENTRY_SHORT", "EXIT", "EXIT_LONG", "EXIT_SHORT", "HOLD"}
Symbols == {"NQ", "ES", "YM", "RTY", "XYZ"}
RawAccountIds == {"1", "2", "abc"}

\* mutant of mapActionToSide: the two exits are mapped like the entries
mapActionToSideExitsSwapped(action) ==
    CASE action = "ENTRY_LONG" -> "BUY"
      [] action = "ENTRY_SHORT" -> "SELL"
      [] action = "EXIT" -> "CLOSE"
      [] action = "EXIT_LONG" -> "BUY"
      [] action = "EXIT_SHORT" -> "SELL"
      [] OTHER -> Null

mapActionToSide(action) ==
    CASE action = "ENTRY_LONG" -> "BUY"
      [] action = "ENTRY_SHORT" -> "SELL"
      [] action = "EXIT" -> "CLOSE"
      [] action = "EXIT_LONG" -> "SELL"
      [] action = "EXIT_SHORT" -> "BUY"
      [] OTHER -> Null

mapSymbolToContractId(symbol) ==
    CASE symbol = "NQ" -> "CON.F.US.ENQ.Z25"
      [] symbol = "ES" -> "CON.F.US.EP.Z25"
      [] symbol = "YM" -> "CON.F.US.YM.Z25"
      [] symbol = "RTY" -> "CON.F.US.RTY.Z25"
      [] OTHER -> Null

\* parseInt(accountIdRaw, 10)
parseInt(raw) ==
    CASE raw = "1" -> 1
      [] raw = "2" -> 2
      [] OTHER -> NaN

\* the body of the POST to /api/Order/place
orderRequest(accountId, side, contractId, lots) ==
    [kind |-> "order", accountId |-> accountId, contractId |-> contractId,
     side |-> IF side = "BUY" THEN SideBuy ELSE SideSell,
     type |-> MarketOrderType, size |-> lots]

\* a trade directive as it arrives on the cloud channel
Directive(rawId, action, symbol, contracts) ==
    [accountId |-> rawId, action |-> action, symbol |-> symbol, contracts |-> contracts]
NoDirective == Directive("", "", "", 0)
Idle == [pc |-> "idle", d |-> NoDirective]

\* directives of the orchestration specification: one for each account
SomeDirectives == {Directive(r, "ENTRY_LONG", "ES", 1) : r \in {"1", "2"}}
\* directives of the pipeline specification: every action and symbol
AllDirectives ==
    {Directive(r, a, s, c) : r \in RawAccountIds, a \in Actions, s \in Symbols,
                             c \in 1..MaxContracts}

\* --------------------------------------------------------------- authService
\* getAccessToken up to its first await: where it suspends and what it sends
tokenPc(tok) ==
    CASE tok = "valid" -> "cached"
      [] tok = "expired" -> "validate"
      [] OTHER -> "login"
tokenNet(tok) ==
    CASE tok = "valid" -> <<>>
      [] tok = "expired" -> <<[kind |-> "validate"]>>
      [] OTHER -> <<[kind |-> "login"]>>

\* The token cache in full: currentToken is 0 for null or the number of the
\* token the broker issued, tokenExpiryTime is -1 for null or a time of the
\* model clock. brokerToken is this cache as the orchestration sees it.
NoToken == [currentToken |-> 0, tokenExpiryTime |-> -1, issued |-> 0]
NoCall == [pc |-> "idle", bearer |-> 0]
InitAuth ==
    /\ auth = NoToken
    /\ tokenCalls = [c \in 1..MaxTokenCalls |-> NoCall]

\* mutant of tokenCached: the token still counts as cached at its expiry time
tokenCachedAtExpiry(a, t) ==
    a.currentToken # 0 /\ a.tokenExpiryTime # -1 /\ t <= a.tokenExpiryTime
\* currentToken && tokenExpiryTime && Date.now() < tokenExpiryTime
tokenCached(a, t) ==
    a.currentToken # 0 /\ a.tokenExpiryTime # -1 /\ t < a.tokenExpiryTime
\* the cache as the orchestration sees it
tokenStatus(a, t) ==
    IF tokenCached(a, t) THEN "valid"
    ELSE IF a.currentToken # 0 THEN "expired" ELSE "none"

\* ------------------------------------------ securityService.RateLimiter
NewRateLimiter(maxRequests, windowMs) ==
    [maxRequests |-> maxRequests, windowMs |-> windowMs, requests |-> <<>>]

\* mutants: a timestamp exactly one window old is kept; the limit is reached
\* only above maxRequests
rlPruneInclusive(requests, t, windowMs) ==
    SelectSeq(requests, LAMBDA ts : (t - ts) <= windowMs)
rlExceededAbove(requests, maxRequests) == Len(requests) > maxRequests

\* this.requests.filter(timestamp => (now - timestamp) < this.windowMs)
rlPrune(requests, t, windowMs) ==
    SelectSeq(requests, LAMBDA ts : (t - ts) < windowMs)
\* if (this.requests.length >= this.maxRequests) throw
rlExceeded(requests, maxRequests) == Len(requests) >= maxRequests
\* oldestRequest + windowMs - now, the time until the limiter frees a slot
rlResetIn(requests, t, windowMs) == Min(Range(requests)) + windowMs - t
\* mutant of rlAfterCheck: a rejected attempt is recorded as well
rlAfterCheckRecordingAll(requests, t, maxRequests, windowMs) ==
    Append(rlPrune(requests, t, windowMs), t)
\* requests after checkLimit() at time t
rlAfterCheck(requests, t, maxRequests, windowMs) ==
    LET kept == rlPrune(requests, t, windowMs)
    IN IF rlExceeded(kept, maxRequests) THEN kept ELSE Append(kept, t)
\* whether checkLimit() at time t returns (TRUE) or throws (FALSE)
rlPasses(requests, t, maxRequests, windowMs) ==
    ~rlExceeded(rlPrune(requests, t, windowMs), maxRequests)

TicksPerHour == 4 * TicksPerQuarter

\* rateLimiters.telemetry: 100 per 15 minutes; rateLimiters.tokenRefresh: 20
\* per hour
TelemetryMaxRequests == 100
TelemetryWindow == TicksPerQuarter
TokenRefreshMaxRequests == 20
TokenRefreshWindow == TicksPerHour

\* rateLimiters.activation: 5 per hour
ActivationWindow == TicksPerHour

\* what storeCloudTokens keeps in the keychain; the tokens of an activated
\* installation before this run refreshed them
\* Cloud access and refresh tokens are numbered in the order the server
\* issued them, 0 for null: activation returned token 1 of each kind.
NoStored == [botId |-> Null, accessToken |-> 0, refreshToken |-> 0,
             deviceFingerprint |-> Null]
Activated == [botId |-> "bot", accessToken |-> 1, refreshToken |-> 1,
              deviceFingerprint |-> "fp"]

\* keytar keeps one password for each account name of the service; the
\* keychain is modelled by the four entries main.js uses, named for what
\* they hold, in the order storeCloudTokens writes them
KeychainAccounts == <<"botId", "accessToken", "refreshToken", "deviceFingerprint">>
setPassword(kc, account, password) == [kc EXCEPT ![account] = password]
getPassword(kc, account) == kc[account]

\* mutant of getCloudTokens: the two tokens are read from each other's entry
getCloudTokensCrossed(kc) ==
    LET botId == getPassword(kc, "botId")
        accessToken == getPassword(kc, "refreshToken")
        refreshToken == getPassword(kc, "accessToken")
        deviceFingerprint == getPassword(kc, "deviceFingerprint")
    IN IF botId # Null /\ accessToken # 0 /\ refreshToken # 0 /\ deviceFingerprint # Null
       THEN [botId |-> botId, accessToken |-> accessToken, refreshToken |-> refreshToken,
             deviceFingerprint |-> deviceFingerprint]
       ELSE NoStored
\* getCloudTokens: the four entries are read; the result is null (NoStored)
\* unless all four are there
getCloudTokens(kc) ==
    LET botId == getPassword(kc, "botId")
        accessToken == getPassword(kc, "accessToken")
        refreshToken == getPassword(kc, "refreshToken")
        deviceFingerprint == getPassword(kc, "deviceFingerprint")
    IN IF botId # Null /\ accessToken # 0 /\ refreshToken # 0 /\ deviceFingerprint # Null
       THEN [botId |-> botId, accessToken |-> accessToken, refreshToken |-> refreshToken,
             deviceFingerprint |-> deviceFingerprint]
       ELSE NoStored

\* no storeCloudTokens call is in progress
NoStore == [pc |-> 0, tokens |-> NoStored]

NoSession == [botId |-> Null, accessToken |-> 0, refreshToken |-> 0,
              deviceFingerprint |-> Null]

InitCloudApi ==
    /\ now = 0
    /\ limiterHist = [first |-> -1, calls |-> 0, late |-> 0]
    /\ activation = <<>>
    /\ activationCalls = <<>>
    /\ activationPending = 0
    /\ cloudSession = NoSession
    /\ telemetry = [requests |-> <<>>, pending |-> 0]
    /\ tokenRefresh = <<>>
    /\ refreshes = [count |-> 0, pending |-> FALSE, bearer |-> 0]
    /\ connectPromise = "none"
    /\ heartbeatTimer = FALSE
    /\ telemetryTimer = FALSE
    /\ tokenRefreshTimer = FALSE
    /\ cloudApiCopy = "current"
    /\ keychainCall = NoStore
    /\ replaced = "none"

\* ------------------------------------- topstepClient.initialize / main.js
\* the frame of the steps of initializeTopstepX
InitFrame == UNCHANGED <<cloudConnectionState, mainWindow, socket, directives,
                         fillSeq, cloudApiVars, authVars, channelVars>>

\* initialize fails: the catch block reports 'error' (setState(WARNING)),
\* rethrows, and initializeTopstepX's catch calls setState(WARNING) again.
\* isInitialized is left as it is; nothing done so far is undone.
InitThrows(op) ==
    /\ initPc' = "failed"
    /\ currentState' = "warning"
    /\ trayState' = trayAfter(currentState, trayState, "warning")
    /\ out' = Out(op, NoArg, <<>>, uiOfSetState(currentState, "warning"), <<>>,
                  [success |-> FALSE])

\* main.initializeTopstepX up to the first await of topstepClient.initialize.
\* creds: what getTopstepXCredentials returned.
InitializeTopstepX(creds) ==
    /\ initPc = "idle"
    /\ ~isInitialized
    /\ InitFrame
    /\ UNCHANGED <<registryVars, brokerToken, isInitialized, isTopstepInitialized, hub>>
    /\ IF creds = "none"
       THEN \* no stored credentials: setState(WARNING), return false
            InitThrows("initializeTopstepX")
       ELSE IF creds = "invalid"
       THEN \* setState(CONNECTING), then authService.initialize throws
            InitThrows("initializeTopstepX")
       ELSE \* setState(CONNECTING); authService.initialize; await getAccessToken()
            /\ initPc' = "auth_" \o tokenPc(brokerToken)
            /\ currentState' = "connecting"
            /\ trayState' = trayAfter(currentState, trayState, "connecting")
            /\ out' = Out("initializeTopstepX", NoArg, tokenNet(brokerToken),
                          uiOfSetState(currentState, "connecting"), <<>>, NoResult)

\* after the first getAccessToken resolved: getActiveAccounts is posted
InitFetchAccounts(op) ==
    /\ initPc' = "fetch"
    /\ UNCHANGED <<currentState, trayState>>
    /\ out' = Out(op, NoArg, <<[kind |-> "accounts"]>>, <<>>, <<>>, NoResult)

\* after the second getAccessToken resolved: the hub connection is built
\* (hub = "starting"), the handlers are registered and hubConnection.start()
\* is awaited
InitStartHub(op) ==
    /\ initPc' = "hub_start"
    /\ UNCHANGED <<currentState, trayState>>
    /\ out' = Out(op, NoArg, <<[kind |-> "hubStart"]>>, <<>>, <<>>, NoResult)

\* a getAccessToken of initialize resumes: the cached token, the answer to
\* /api/Auth/validate or the answer to /api/Auth/loginKey (ok: the server
\* accepted). which: "auth" (the first call) or "hub" (the second).
InitTokenStep(which, ok) ==
    /\ initPc \in {which \o "_cached", which \o "_validate", which \o "_login"}
    /\ InitFrame
    /\ UNCHANGED <<registryVars, isInitialized, isTopstepInitialized>>
    /\ hub' = IF which = "hub" /\ (initPc = which \o "_cached" \/ ok) THEN "starting" ELSE hub
    /\ IF initPc = which \o "_cached" \/ ok
       THEN /\ brokerToken' = IF initPc = which \o "_cached" THEN brokerToken ELSE "valid"
            /\ IF which = "auth" THEN InitFetchAccounts("getAccessToken")
                                 ELSE InitStartHub("getAccessToken")
       ELSE IF initPc = which \o "_validate"
       THEN \* validation failed: full login
            /\ brokerToken' = brokerToken
            /\ initPc' = which \o "_login"
            /\ UNCHANGED <<currentState, trayState>>
            /\ out' = Out("getAccessToken", NoArg, <<[kind |-> "login"]>>, <<>>, <<>>, NoResult)
       ELSE \* login failed: getAccessToken throws
            /\ brokerToken' = brokerToken
            /\ InitThrows("getAccessToken")

\* the answer to /api/Account/search. list: the active accounts (<<>>: none,
\* or the request failed). With accounts: initializeAccounts,
\* setMasterKillSwitch(true), onAccountsLoaded (isTopstepInitialized = true,
\* accounts-loaded, setState(CONNECTED)) and the second await getAccessToken().
InitAccountsResponse(list) ==
    /\ initPc = "fetch"
    /\ InitFrame
    /\ UNCHANGED <<brokerToken, isInitialized, hub>>
    /\ IF list = <<>>
       THEN /\ UNCHANGED <<registryVars, isTopstepInitialized>>
            /\ InitThrows("getActiveAccounts")
       ELSE /\ accounts' = initializeAccounts(accounts, list)
            /\ masterKillSwitch' = TRUE
            /\ isTopstepInitialized' = TRUE
            /\ currentState' = "connected"
            /\ trayState' = trayAfter(currentState, trayState, "connected")
            /\ initPc' = "hub_" \o tokenPc(brokerToken)
            /\ out' = Out("onAccountsLoaded", [list |-> list], tokenNet(brokerToken),
                          Send(<<[ch |-> "accounts-loaded"]>>)
                              \o uiOfSetState(currentState, "connected"),
                          <<>>, NoResult)

\* startConnection resolved (connected: hubConnection.start() succeeded):
\* onConnectionStateChanged('connected' | 'disconnected'), isInitialized = true
InitHubStarted(connected) ==
    /\ initPc = "hub_start"
    /\ InitFrame
    /\ UNCHANGED <<registryVars, brokerToken, isTopstepInitialized>>
    /\ LET new == IF connected THEN "connected" ELSE "disconnected"
       IN /\ currentState' = new
          /\ trayState' = trayAfter(currentState, trayState, new)
          /\ out' = Out("startConnection", NoArg, <<>>, uiOfSetState(currentState, new),
                        <<>>, [success |-> TRUE])
    /\ hub' = IF connected THEN "connected" ELSE "disconnected"
    /\ isInitialized' = TRUE
    /\ initPc' = "done"

\* The User Hub connection is built withAutomaticReconnect and a retry delay
\* that is always config.RECONNECT_INTERVAL_MS, so a lost connection is
\* retried until it is stopped. Its onreconnecting and onreconnected
\* handlers log and do nothing else.
HubReconnecting ==
    /\ hub = "connected"
    /\ hub' = "reconnecting"
    /\ out' = Quiet("onreconnecting")
    /\ UNCHANGED <<registryVars, brokerToken, isInitialized, initPc, mainVars, socket,
                   directives, fillSeq, cloudApiVars, authVars, channelVars>>

HubReconnected ==
    /\ hub = "reconnecting"
    /\ hub' = "connected"
    /\ out' = Quiet("onreconnected")
    /\ UNCHANGED <<registryVars, brokerToken, isInitialized, initPc, mainVars, socket,
                   directives, fillSeq, cloudApiVars, authVars, channelVars>>

\* ipcMain.handle('get-app-state'): the reply carries currentState
GetAppState ==
    /\ out' = Out("get-app-state", NoArg, <<>>, <<>>, <<>>, [state |-> currentState])
    /\ UNCHANGED <<registryVars, clientVars, mainVars, socket, directives, fillSeq,
                   cloudApiVars, authVars, channelVars>>

\* Date.now() passes tokenExpiryTime
TokenExpires ==
    /\ brokerToken = "valid"
    /\ brokerToken' = "expired"
    /\ out' = Quiet("clock")
    /\ UNCHANGED <<registryVars, isInitialized, initPc, hub, mainVars, socket, directives,
                   fillSeq, cloudApiVars, authVars, channelVars>>

\* ------------------------------------------------- cloud channel (socket.io)
\* onConnectionStateChanged of initializeCloudApi: the cloud state is copied,
\* the tray is refreshed and cloud-connection-changed is sent; net and emit
\* are what the rest of the socket handler sends
CloudStateChanged(op, state, net) ==
    /\ cloudConnectionState' = state
    /\ trayState' = effectiveState(currentState, state)
    /\ out' = Out(op, [state |-> state], net,
                  Send(<<[ch |-> "cloud-connection-changed", status |-> state]>>),
                  <<>>, NoResult)
    /\ UNCHANGED <<registryVars, clientVars, isTopstepInitialized, currentState,
                   mainWindow, directives, fillSeq, cloudApiVars, authVars>>

\* mutant of heartbeatAfter: a disconnect leaves the timer running
heartbeatKeptOnDisconnect(event, timer) ==
    IF event = "connect" THEN TRUE ELSE timer
\* heartbeatInterval after a socket event: startHeartbeat on connect,
\* stopHeartbeat on disconnect
heartbeatAfter(event, timer) ==
    CASE event = "connect" -> TRUE
      [] event = "disconnect" -> FALSE
      [] OTHER -> timer

\* answers to POST /v1/auth/refresh: an error, a new access token, a new
\* access token together with a new refresh token
RefreshResponses == {"failed", "access", "rotated"}
\* the n-th answer's token fields (tokens 1 came with the activation)
refreshBody(response, n) ==
    [accessToken |-> IF response = "failed" THEN 0 ELSE n + 1,
     refreshToken |-> IF response = "rotated" THEN n + 1 ELSE 0]
\* The repository holds two copies of services/cloudApiService.js: the one
\* with rate limiters and trade directives ("current", modelled throughout)
\* and an earlier one ("legacy"), which differs in how it refreshes tokens.
CloudApiCopies == {"current", "legacy"}

\* what refreshAccessToken(currentRefreshToken) returns for an answer: the
\* current copy needs an access token in the answer and returns the refresh
\* token it was called with; the legacy copy needs both tokens in the
\* answer and returns both
refreshResult(copy, currentRefreshToken, body) ==
    IF copy = "current" /\ body.accessToken # 0
    THEN [success |-> TRUE, accessToken |-> body.accessToken,
          refreshToken |-> currentRefreshToken, response |-> body]
    ELSE IF copy = "legacy" /\ body.accessToken # 0 /\ body.refreshToken # 0
    THEN [success |-> TRUE, accessToken |-> body.accessToken,
          refreshToken |-> body.refreshToken, response |-> body]
    ELSE [success |-> FALSE, accessToken |-> 0, refreshToken |-> 0, response |-> body]

\* startTokenRefresh after a successful refresh: the legacy copy, when
\* connected, calls disconnectWebSocket and connectWebSocket(accessToken)
reopensAfterRefresh(copy, sock, success) ==
    copy = "legacy" /\ success /\ sock = "connected"

\* mutant of telemetryReady: only the access token is required
telemetryReadyTokenOnly(session) == session.accessToken # 0
\* sendTelemetry's two guards
telemetryReady(session) == session.accessToken # 0 /\ session.deviceFingerprint # Null

\* sendTelemetry(accounts) up to its await, as (telemetry', requests issued, result)
sendTelemetry(session, tel, t) ==
    IF ~telemetryReady(session)
    THEN [telemetry |-> tel, net |-> <<>>, result |-> [ok |-> FALSE, sent |-> FALSE]]
    ELSE IF ~rlPasses(tel.requests, t, TelemetryMaxRequests, TelemetryWindow)
    THEN [telemetry |-> [tel EXCEPT !.requests = rlPrune(tel.requests, t, TelemetryWindow)],
          net |-> <<>>, result |-> [ok |-> FALSE, sent |-> FALSE]]
    ELSE [telemetry |-> [requests |-> rlAfterCheck(tel.requests, t, TelemetryMaxRequests,
                                                   TelemetryWindow),
                         pending |-> tel.pending + 1],
          net |-> <<[kind |-> "telemetry", bearer |-> session.accessToken,
                     deviceFingerprint |-> session.deviceFingerprint]>>,
          result |-> [ok |-> FALSE, sent |-> TRUE]]

\* initializeCloudApi, run after initializeTopstepX returned (true or false):
\* stored tokens are read, refreshed, stored again and set on the service,
\* then connectWebSocket creates the socket and waits for 'connect'
InitializeCloudApi(response) ==
    /\ initPc \in {"done", "failed"}
    /\ socket = "none"
    /\ UNCHANGED <<registryVars, clientVars, mainVars, directives, fillSeq, authVars,
                   now, limiter, limiterHist, activation, activationCalls, activationPending,
                   heartbeatTimer, telemetryTimer, tokenRefreshTimer, telemetry,
                   cloudApiCopy, keychainCall, replaced>>
    /\ keychainCall = NoStore
    /\ IF getCloudTokens(storedTokens) = NoStored
       THEN /\ socket' = "off"
            /\ out' = Out("initializeCloudApi", NoArg, <<>>, <<>>, <<>>,
                          refreshResult(cloudApiCopy, 0, refreshBody("failed", 0)))
            /\ UNCHANGED <<cloudSession, storedTokens, connectPromise, tokenRefresh, refreshes>>
       ELSE LET body == refreshBody(response, refreshes.count + 1)
                result == refreshResult(cloudApiCopy, storedTokens.refreshToken, body)
            IN /\ tokenRefresh' = rlAfterCheck(tokenRefresh, now, TokenRefreshMaxRequests,
                                               TokenRefreshWindow)
               /\ refreshes' = [refreshes EXCEPT !.count = @ + 1]
               /\ out' = Out("initializeCloudApi",
                             [refreshToken |-> storedTokens.refreshToken],
                             <<[kind |-> "refresh", refreshToken |-> storedTokens.refreshToken]>>,
                             <<>>, <<>>, result)
               /\ IF result.success
                  THEN /\ storedTokens' = [storedTokens EXCEPT
                                              !.accessToken = result.accessToken,
                                              !.refreshToken = result.refreshToken]
                       /\ cloudSession' = [storedTokens EXCEPT
                                              !.accessToken = result.accessToken,
                                              !.refreshToken = result.refreshToken]
                       /\ socket' = "connecting"
                       /\ connectPromise' = "pending"
                  ELSE /\ socket' = "off"
                       /\ UNCHANGED <<cloudSession, storedTokens, connectPromise>>

\* socket.on('connect'): isConnected, 'connected', startHeartbeat. When this
\* is the connect that connectWebSocket waits for, the promise resolves and
\* initializeCloudApi goes on: startTelemetryReporting (with a first
\* sendTelemetry if there are accounts) and startTokenRefresh.
SocketConnect ==
    /\ socket \in {"connecting", "disconnected"}
    /\ socket' = "connected"
    /\ heartbeatTimer' = heartbeatAfter("connect", heartbeatTimer)
    /\ UNCHANGED <<storedTokens, tokenRefresh, refreshes, cloudApiCopy, keychainCall, replaced>>
    /\ IF connectPromise = "pending"
       THEN LET sent == IF DOMAIN accounts # {} THEN sendTelemetry(cloudSession, telemetry, now)
                        ELSE [telemetry |-> telemetry, net |-> <<>>,
                              result |-> [ok |-> FALSE, sent |-> FALSE]]
            IN /\ connectPromise' = "resolved"
               /\ telemetryTimer' = TRUE
               /\ tokenRefreshTimer' = TRUE
               /\ telemetry' = sent.telemetry
               /\ CloudStateChanged("connect", "connected", sent.net)
       ELSE /\ UNCHANGED <<connectPromise, telemetryTimer, tokenRefreshTimer, telemetry>>
            /\ CloudStateChanged("connect", "connected", <<>>)

\* socket.on('connect_error'): a connection attempt failed; isConnected is
\* false, 'error' is reported and the promise is rejected (which has no
\* effect once it is settled). The socket is not closed.
SocketConnectError ==
    /\ socket \in {"connecting", "disconnected"}
    /\ socket' = socket
    /\ connectPromise' = IF connectPromise = "pending" THEN "rejected" ELSE connectPromise
    /\ UNCHANGED <<storedTokens, heartbeatTimer, telemetryTimer, tokenRefreshTimer,
                   telemetry, tokenRefresh, refreshes, cloudApiCopy, keychainCall, replaced>>
    /\ CloudStateChanged("connect_error", "error", <<>>)

\* the connectionTimeout of connectWebSocket fires before 'connect'
ConnectTimeout ==
    /\ connectPromise = "pending"
    /\ socket # "connected"
    /\ connectPromise' = "rejected"
    /\ out' = Out("connectTimeout", NoArg, <<>>, <<>>, <<>>, [success |-> FALSE])
    /\ UNCHANGED <<registryVars, clientVars, mainVars, socket, directives, fillSeq,
                   cloudApiVars, authVars, storedTokens, heartbeatTimer, telemetryTimer,
                   tokenRefreshTimer, telemetry, tokenRefresh, refreshes, cloudApiCopy, keychainCall, replaced>>

\* socket.on('disconnect'): isConnected false, stopHeartbeat, 'disconnected'
SocketDisconnect ==
    /\ socket = "connected"
    /\ socket' = "disconnected"
    /\ heartbeatTimer' = heartbeatAfter("disconnect", heartbeatTimer)
    /\ UNCHANGED <<storedTokens, connectPromise, telemetryTimer, tokenRefreshTimer,
                   telemetry, tokenRefresh, refreshes, cloudApiCopy, keychainCall, replaced>>
    /\ CloudStateChanged("disconnect", "disconnected", <<>>)

\* socket.on('reconnect_attempt')
SocketReconnectAttempt ==
    /\ socket = "disconnected"
    /\ socket' = socket
    /\ UNCHANGED channelVars
    /\ CloudStateChanged("reconnect_attempt", "reconnecting", <<>>)

\* --------------------------------------------------- kill-switch operations
\* mutant of CloudCommand: SET_TRADING_STATUS is applied whether or not the
\* broker client is initialized
CloudCommandUnguarded(command, hasPayload, enabled) ==
    LET arg == [command |-> command, commandId |-> "c1", payload |-> hasPayload,
                enabled |-> enabled]
        ack == <<[ev |-> "command_ack", commandId |-> arg.commandId]>>
    IN /\ socket = "connected"
       /\ ~hasPayload => ~enabled
       /\ IF command = "SET_TRADING_STATUS" /\ ~hasPayload
          THEN /\ masterKillSwitch' = masterKillSwitch
               /\ out' = Out("command", arg, <<>>, <<>>, <<>>, [thrown |-> TRUE])
          ELSE IF command = "SET_TRADING_STATUS"
          THEN /\ masterKillSwitch' = enabled
               /\ out' = Out("command", arg, <<>>,
                             Send(<<[ch |-> "trading-status-changed", enabled |-> enabled]>>),
                             ack, [thrown |-> FALSE])
          ELSE /\ masterKillSwitch' = masterKillSwitch
               /\ out' = Out("command", arg, <<>>, <<>>, ack, [thrown |-> FALSE])
       /\ UNCHANGED <<accounts, clientVars, mainVars, socket, directives, fillSeq,
                      cloudApiVars, authVars, channelVars>>
\* socket.on('command'): handleCloudCommand, then command_ack with the
\* command's id. SET_TRADING_STATUS reads payload.enabled, which throws when
\* the command carries no payload: the handler ends there, before the ack.
CloudCommand(command, hasPayload, enabled) ==
    LET arg == [command |-> command, commandId |-> "c1", payload |-> hasPayload,
                enabled |-> enabled]
        ack == <<[ev |-> "command_ack", commandId |-> arg.commandId]>>
    IN /\ socket = "connected"
       /\ ~hasPayload => ~enabled
       /\ IF command = "SET_TRADING_STATUS" /\ ~hasPayload
          THEN /\ masterKillSwitch' = masterKillSwitch
               /\ out' = Out("command", arg, <<>>, <<>>, <<>>, [thrown |-> TRUE])
          ELSE IF command = "SET_TRADING_STATUS" /\ isTopstepInitialized
          THEN /\ masterKillSwitch' = enabled
               /\ out' = Out("command", arg, <<>>,
                             Send(<<[ch |-> "trading-status-changed", enabled |-> enabled]>>),
                             ack, [thrown |-> FALSE])
          ELSE /\ masterKillSwitch' = masterKillSwitch
               /\ out' = Out("command", arg, <<>>, <<>>, ack, [thrown |-> FALSE])
       /\ UNCHANGED <<accounts, clientVars, mainVars, socket, directives, fillSeq,
                      cloudApiVars, authVars, channelVars>>

\* ipcMain.handle('set-master-kill-switch')
SetMasterKillSwitchIpc(enabled) ==
    /\ masterKillSwitch' = IF isTopstepInitialized THEN enabled ELSE masterKillSwitch
    /\ out' = Out("set-master-kill-switch", [enabled |-> enabled], <<>>, <<>>, <<>>,
                  [success |-> isTopstepInitialized])
    /\ UNCHANGED <<accounts, clientVars, mainVars, socket, directives, fillSeq, cloudApiVars, authVars, channelVars>>

\* ipcMain.handle('set-account-trading')
SetAccountTradingIpc(accountId, enabled) ==
    /\ accounts' = IF isTopstepInitialized
                   THEN setAccountTrading(accounts, accountId, enabled) ELSE accounts
    /\ out' = Out("set-account-trading", [accountId |-> accountId, enabled |-> enabled],
                  <<>>, <<>>, <<>>,
                  [success |-> isTopstepInitialized /\ accountId \in DOMAIN accounts])
    /\ UNCHANGED <<masterKillSwitch, clientVars, mainVars, socket, directives, fillSeq,
                   cloudApiVars, authVars, channelVars>>

\* app.quitting is set and the window's close handler sets mainWindow = null
AppQuit ==
    /\ mainWindow
    /\ mainWindow' = FALSE
    /\ out' = Quiet("quit")
    /\ UNCHANGED <<registryVars, clientVars, isTopstepInitialized, currentState,
                   cloudConnectionState, trayState, socket, directives, fillSeq,
                   cloudApiVars, authVars, channelVars>>

\* ---------------------------- handleTradeDirective / submitOrder (pipeline)
DirectiveFrame == UNCHANGED <<registryVars, isInitialized, initPc, hub, mainVars, socket,
                              fillSeq, cloudApiVars, authVars, channelVars>>

\* the context echoed in notifications and results
Echo(d) == [accountId |-> parseInt(d.accountId), action |-> d.action,
            symbol |-> d.symbol, contracts |-> d.contracts]

\* mutant of SubmitFails: the failed order is submitted again
SubmitFailsThenRetries(s, d, op, error) ==
    /\ directives' = [directives EXCEPT ![s] = [pc |-> "post", d |-> d]]
    /\ out' = Out(op, d,
                  <<orderRequest(parseInt(d.accountId), "BUY", "CON.F.US.EP.Z25", d.contracts)>>,
                  <<>>, <<>>, NoResult)
\* submitOrder's catch block: the failure result; handleTradeDirective then
\* sends order-failed. The handler invocation in slot s ends.
SubmitFails(s, d, op, error) ==
    /\ directives' = [directives EXCEPT ![s] = Idle]
    /\ out' = Out(op, d, <<>>,
                  Send(<<[ch |-> "order-failed", error |-> error, echo |-> Echo(d)]>>),
                  <<>>,
                  [success |-> FALSE, error |-> error, echo |-> Echo(d)])

\* submitOrder after getAccessToken resolved: map the action, map the symbol,
\* post the order
SubmitResume(s, d, op) ==
    LET side == mapActionToSide(d.action)
        contractId == mapSymbolToContractId(d.symbol)
    IN IF side = Null THEN SubmitFails(s, d, op, <<"Invalid action", d.action>>)
       ELSE IF contractId = Null THEN SubmitFails(s, d, op, <<"Unknown symbol", d.symbol>>)
       ELSE /\ directives' = [directives EXCEPT ![s] = [pc |-> "post", d |-> d]]
            /\ out' = Out(op, d,
                          <<orderRequest(parseInt(d.accountId), side, contractId, d.contracts)>>,
                          <<>>, <<>>, NoResult)

\* socket.on('trade_directive'): handleTradeDirective runs up to its first
\* await, then directive_ack is emitted. result.submitOrder records whether
\* the handler went on to call submitOrder.
TradeDirective(d, slots) ==
    /\ socket = "connected"
    /\ \E s \in 1..slots :
        /\ directives[s].pc = "idle"
        /\ \A t \in 1..(s - 1) : directives[t].pc # "idle"
        /\ DirectiveFrame
        /\ UNCHANGED brokerToken
        /\ LET accountId == parseInt(d.accountId)
               ack == <<[ev |-> "directive_ack"]>>
           IN IF ~isTopstepInitialized
              THEN \* 'Cannot execute trade - TopstepX not initialized'
                   /\ directives' = directives
                   /\ out' = Out("trade_directive", d, <<>>, <<>>, ack,
                                 [submitOrder |-> FALSE])
              ELSE IF ~canTrade(accountId)
              THEN /\ directives' = directives
                   /\ out' = Out("trade_directive", d, <<>>,
                                 Send(<<[ch |-> "signal-rejected",
                                         reason |-> "Kill switch enabled",
                                         echo |-> Echo(d)]>>),
                                 ack, [submitOrder |-> FALSE])
              ELSE \* signal-received, then submitOrder -> await getAccessToken()
                   /\ directives' = [directives EXCEPT
                                        ![s] = [pc |-> tokenPc(brokerToken), d |-> d]]
                   /\ out' = Out("trade_directive", d, tokenNet(brokerToken),
                                 Send(<<[ch |-> "signal-received", echo |-> Echo(d)]>>),
                                 ack, [submitOrder |-> TRUE])

\* the getAccessToken awaited by submitOrder resumes: with the cached token,
\* with the answer to validate, or with the answer to login
DirectiveTokenStep(s, ok) ==
    /\ directives[s].pc \in {"cached", "validate", "login"}
    /\ DirectiveFrame
    /\ LET d == directives[s].d
           pc == directives[s].pc
       IN IF pc = "cached" \/ ok
          THEN /\ brokerToken' = IF pc = "cached" THEN brokerToken ELSE "valid"
               /\ SubmitResume(s, d, "getAccessToken")
          ELSE IF pc = "validate"
          THEN /\ brokerToken' = brokerToken
               /\ directives' = [directives EXCEPT ![s].pc = "login"]
               /\ out' = Out("getAccessToken", d, <<[kind |-> "login"]>>, <<>>, <<>>, NoResult)
          ELSE /\ brokerToken' = brokerToken
               /\ SubmitFails(s, d, "getAccessToken", <<"Authentication failed", "">>)

\* answers to POST /api/Order/place: the order was placed (200 with an order
\* id), the broker refused it in a 200 body (success false, no order id, the
\* convention authService handles for the same API), an HTTP error status,
\* no answer within the timeout
OrderResponses == {"placed", "refused", "http_error", "timeout"}
orderBody(response) ==
    IF response = "placed" THEN [success |-> TRUE, orderId |-> "order"]
    ELSE [success |-> FALSE, orderId |-> Null]

\* submitOrder from the answer to its return, then handleTradeDirective's
\* notification: any 2xx answer is returned as success with
\* response.data.orderId, a rejected promise goes through the catch block
OrderResponse(s, response) ==
    /\ directives[s].pc = "post"
    /\ DirectiveFrame
    /\ UNCHANGED brokerToken
    /\ LET d == directives[s].d
       IN IF response \in {"placed", "refused"}
          THEN /\ directives' = [directives EXCEPT ![s] = Idle]
               /\ out' = Out("orderResponse", d, <<>>,
                             Send(<<[ch |-> "order-submitted", echo |-> Echo(d)]>>), <<>>,
                             [success |-> TRUE, orderId |-> orderBody(response).orderId,
                              rawResponse |-> orderBody(response), echo |-> Echo(d)])
          ELSE SubmitFails(s, d, "orderResponse", <<"Request failed", response>>)

\* ------------------------------------------------ fills, clock, rate limits
AppFrame == UNCHANGED <<registryVars, clientVars, mainVars, socket, directives, fillSeq,
                        authVars, channelVars>>

\* topstepClient.handleFill with main's onFill callback; accountId 0 stands
\* for a payload without an account id. A fill's id is its position in the
\* account's stream of fills.
HandleFill(accountId) ==
    LET fillData == [accountId |-> accountId,
                     id |-> IF accountId = 0 THEN 0 ELSE fillSeq[accountId] + 1]
    IN /\ accountId # 0 => fillSeq[accountId] < MaxFillSeq
       /\ accounts' = IF accountId # 0 THEN addFill(accounts, accountId, fillData)
                      ELSE accounts
       /\ fillSeq' = IF accountId # 0 THEN [fillSeq EXCEPT ![accountId] = @ + 1]
                     ELSE fillSeq
       /\ out' = Out("handleFill", fillData, <<>>,
                     Send(<<[ch |-> "fill-update", data |-> fillData]>>), <<>>, NoResult)
       /\ UNCHANGED <<masterKillSwitch, clientVars, mainVars, socket, directives,
                      cloudApiVars, authVars, channelVars>>

\* ------------------------------------------- registry operations and feed
RegistryFrame == UNCHANGED <<clientVars, mainVars, socket, directives, cloudApiVars,
                             authVars, channelVars>>

\* lists handed to initializeAccounts: those of the broker, and one whose
\* entry carries trading flags of its own
RegistryLists ==
    AccountLists \cup {<<[id |-> 2, tradingEnabled |-> FALSE, canTrade |-> FALSE]>>,
                       <<[id |-> 1, pnl |-> 2]>>}

\* accountManager.initializeAccounts(accountList)
InitializeAccounts(accountList) ==
    /\ accounts' = initializeAccounts(accounts, accountList)
    /\ out' = Out("initializeAccounts", [list |-> accountList], <<>>, <<>>, <<>>, NoResult)
    /\ UNCHANGED <<masterKillSwitch, fillSeq>>
    /\ RegistryFrame

\* AccountUpdate payloads of the User Hub (accountId 0: no account id):
\* with a realized PNL, and one carrying a tradingEnabled field
AccountUpdates ==
    {[accountId |-> a, realizedPnl |-> 1] : a \in {0, 1}}
        \cup {[accountId |-> 2, tradingEnabled |-> FALSE]}

\* topstepClient.handleAccountUpdate on the registry: updatePnl when the
\* payload has realizedPnl, then updateAccount with the whole payload
handleAccountUpdate(acc, accountData) ==
    IF accountData.accountId = 0 THEN acc
    ELSE LET withPnl == IF "realizedPnl" \in DOMAIN accountData
                        THEN updatePnl(acc, accountData.accountId, accountData.realizedPnl)
                        ELSE acc
         IN updateAccount(withPnl, accountData.accountId, accountData)

\* the AccountUpdate event: handleAccountUpdate, then main's onAccountUpdate
\* sends pnl-update
HandleAccountUpdate(accountData) ==
    /\ accounts' = handleAccountUpdate(accounts, accountData)
    /\ out' = Out("handleAccountUpdate", accountData, <<>>,
                  Send(<<[ch |-> "pnl-update", accountId |-> accountData.accountId]>>),
                  <<>>, NoResult)
    /\ UNCHANGED <<masterKillSwitch, fillSeq>>
    /\ RegistryFrame

\* the PositionUpdate event: for a known account, updateAccount with the
\* payload's positions
HandlePositionUpdate(accountId) ==
    LET positionData == [accountId |-> accountId, positions |-> <<"ES">>]
    IN /\ accounts' = IF accountId # 0 /\ accountId \in DOMAIN accounts
                      THEN updateAccount(accounts, accountId,
                                         [openPositions |-> positionData.positions])
                      ELSE accounts
       /\ out' = Out("handlePositionUpdate", positionData, <<>>, <<>>, <<>>, NoResult)
       /\ UNCHANGED <<masterKillSwitch, fillSeq>>
       /\ RegistryFrame

\* accountManager.addFill(accountId, fillData)
AddFill(accountId) ==
    LET fillData == [accountId |-> accountId, id |-> fillSeq[accountId] + 1]
    IN /\ fillSeq[accountId] < MaxRegistryFills
       /\ accounts' = addFill(accounts, accountId, fillData)
       /\ fillSeq' = [fillSeq EXCEPT ![accountId] = @ + 1]
       /\ out' = Out("addFill", fillData, <<>>, <<>>, <<>>, NoResult)
       /\ UNCHANGED masterKillSwitch
       /\ RegistryFrame

\* accountManager.reset()
Reset ==
    /\ accounts' = reset.accounts
    /\ masterKillSwitch' = reset.masterKillSwitch
    /\ out' = Quiet("reset")
    /\ UNCHANGED fillSeq
    /\ RegistryFrame

\* authService.clearToken
clearToken(a) == [a EXCEPT !.currentToken = 0, !.tokenExpiryTime = -1]

\* topstepClient.shutdown from where the hub connection has stopped (or
\* there was none) to its end: reset, clearToken, isInitialized = false
ShutdownEnds(stopped) ==
    /\ hub' = stopped
    /\ accounts' = reset.accounts
    /\ masterKillSwitch' = reset.masterKillSwitch
    /\ auth' = clearToken(auth)
    /\ brokerToken' = "none"
    /\ isInitialized' = FALSE
    /\ out' = Quiet("shutdown")
    /\ UNCHANGED <<initPc, mainVars, socket, directives, fillSeq, cloudApiVars,
                   tokenCalls, channelVars>>

\* topstepClient.shutdown up to await stopConnection(userHub); with no hub
\* connection built it runs to its end
Shutdown ==
    /\ hub # "stopping"
    /\ IF hub = "none"
       THEN ShutdownEnds("none")
       ELSE /\ hub' = "stopping"
            /\ out' = Quiet("stopConnection")
            /\ UNCHANGED <<registryVars, brokerToken, isInitialized, initPc, mainVars,
                           socket, directives, fillSeq, cloudApiVars, authVars,
                           channelVars>>

\* hubConnection.stop() resolved
ShutdownResume ==
    /\ hub = "stopping"
    /\ ShutdownEnds("stopped")

\* mutant of alreadyInitialized: the check is not made
alreadyInitializedIgnored(initialized) == FALSE
\* if (isInitialized) { console.warn(...); return; }
alreadyInitialized(initialized) == initialized

\* topstepClient.initialize(credentials, callbacks) up to its first await,
\* called when no other initialize is under way. On an initialized client
\* it warns and returns; otherwise authService.initialize(credentials)
\* (which throws on incomplete credentials) and await getAccessToken().
TopstepInitialize(creds) ==
    /\ initPc \in {"idle", "done", "failed"}
    /\ InitFrame
    /\ UNCHANGED <<registryVars, brokerToken, isInitialized, isTopstepInitialized, hub>>
    /\ IF alreadyInitialized(isInitialized)
       THEN /\ UNCHANGED <<initPc, currentState, trayState>>
            /\ out' = Out("initialize", [credentials |-> creds], <<>>, <<>>, <<>>,
                          [started |-> FALSE])
       ELSE IF creds = "invalid"
       THEN InitThrows("initialize")
       ELSE /\ initPc' = "auth_" \o tokenPc(brokerToken)
            /\ UNCHANGED <<currentState, trayState>>
            /\ out' = Out("initialize", [credentials |-> creds], tokenNet(brokerToken),
                          <<>>, <<>>, [started |-> TRUE])

\* -------------------------------------------------- keychain (main.js)
KeychainFrame == UNCHANGED <<registryVars, clientVars, mainVars, socket, directives,
                            fillSeq, cloudApiVars, authVars, connectPromise,
                            heartbeatTimer, telemetryTimer, tokenRefreshTimer, telemetry,
                            tokenRefresh, refreshes, cloudApiCopy, replaced>>

\* values handed to storeCloudTokens: non-empty ids, tokens and fingerprints
StoreArguments ==
    [botId : {"bot", "bot2"}, accessToken : {1, 2}, refreshToken : {1, 2},
     deviceFingerprint : {"fp", "fp2"}]

\* storeCloudTokens(botId, accessToken, refreshToken, deviceFingerprint) up
\* to its first await: the first setPassword is under way. One call runs at
\* a time: the callers await it.
StoreCloudTokens(tokens) ==
    /\ keychainCall = NoStore
    /\ keychainCall' = [pc |-> 1, tokens |-> tokens]
    /\ out' = Out("setPassword", tokens, <<>>, <<>>, <<>>, NoResult)
    /\ UNCHANGED storedTokens
    /\ KeychainFrame

\* a setPassword of the call settles. ok: the keychain took the value, and
\* the next entry is written or, after the fourth, the call returns true;
\* otherwise keytar rejected, the catch block returns false and the entries
\* written so far stay.
StoreStep(ok) ==
    LET pc == keychainCall.pc
        tokens == keychainCall.tokens
    IN /\ pc \in DOMAIN KeychainAccounts
       /\ storedTokens' = IF ok THEN setPassword(storedTokens, KeychainAccounts[pc],
                                                 tokens[KeychainAccounts[pc]])
                          ELSE storedTokens
       /\ keychainCall' = IF ok /\ pc < Len(KeychainAccounts)
                          THEN [keychainCall EXCEPT !.pc = pc + 1] ELSE NoStore
       /\ out' = IF ok /\ pc < Len(KeychainAccounts)
                 THEN Out("setPassword", tokens, <<>>, <<>>, <<>>, NoResult)
                 ELSE Out("storeCloudTokens", tokens, <<>>, <<>>, <<>>, [success |-> ok])
       /\ KeychainFrame

\* getCloudTokens() while no store is in progress. ok: the keychain could be
\* read; otherwise the catch block returns null.
GetCloudTokens(ok) ==
    /\ keychainCall = NoStore
    /\ out' = Out("getCloudTokens", [ok |-> ok], <<>>, <<>>, <<>>,
                  IF ok THEN getCloudTokens(storedTokens) ELSE NoStored)
    /\ UNCHANGED <<storedTokens, keychainCall>>
    /\ KeychainFrame

\* Date.now() advances
Tick ==
    /\ now < MaxTime
    /\ now' = now + 1
    /\ out' = Quiet("clock")
    /\ AppFrame
    /\ UNCHANGED <<limiter, limiterHist, activation, activationCalls, activationPending,
                   cloudSession>>

\* RateLimiter.checkLimit on the generic instance
CheckLimit ==
    LET before == limiter.requests
        kept == rlPrune(before, now, limiter.windowMs)
        ok == rlPasses(before, now, limiter.maxRequests, limiter.windowMs)
    IN /\ limiterHist.calls < MaxCalls
       /\ limiter' = [limiter EXCEPT !.requests =
                         rlAfterCheck(before, now, limiter.maxRequests, limiter.windowMs)]
       /\ limiterHist' =
            [first |-> IF limiterHist.first = -1 THEN now ELSE limiterHist.first,
             calls |-> limiterHist.calls + 1,
             late |-> IF limiterHist.first # -1
                         /\ now - limiterHist.first >= limiter.windowMs
                      THEN limiterHist.late + 1 ELSE limiterHist.late]
       /\ out' = Out("checkLimit", NoArg, <<>>, <<>>, <<>>,
                     [ok |-> ok,
                      oldest |-> IF before = <<>> THEN -1 ELSE Min(Range(before)),
                      resetIn |-> IF ok THEN 0 ELSE rlResetIn(kept, now, limiter.windowMs)])
       /\ AppFrame
       /\ UNCHANGED <<now, activation, activationCalls, activationPending, cloudSession>>

\* RateLimiter.getStats
GetStats ==
    LET kept == rlPrune(limiter.requests, now, limiter.windowMs)
    IN /\ limiter' = [limiter EXCEPT !.requests = kept]
       /\ out' = Out("getStats", NoArg, <<>>, <<>>, <<>>,
                     [used |-> Len(kept), limit |-> limiter.maxRequests,
                      remaining |-> limiter.maxRequests - Len(kept),
                      resetIn |-> IF Len(kept) > 0
                                  THEN rlResetIn(kept, now, limiter.windowMs) ELSE 0])
       /\ AppFrame
       /\ UNCHANGED <<now, limiterHist, activation, activationCalls, activationPending,
                      cloudSession>>

\* cloudApiService.activateBot up to its await of the HTTP response
ActivateBot(fingerprint) ==
    LET kept == rlPrune(activation, now, ActivationWindow)
        ok == rlPasses(activation, now, ActivationMaxRequests, ActivationWindow)
    IN /\ Len(activationCalls) < MaxActivations
       /\ activation' = rlAfterCheck(activation, now, ActivationMaxRequests, ActivationWindow)
       /\ activationCalls' = Append(activationCalls, [t |-> now, passed |-> ok])
       /\ IF ok
          THEN /\ cloudSession' = [cloudSession EXCEPT !.deviceFingerprint = fingerprint]
               /\ activationPending' = activationPending + 1
               /\ out' = Out("activateBot", [fingerprint |-> fingerprint],
                             <<[kind |-> "activate", deviceFingerprint |-> fingerprint]>>,
                             <<>>, <<>>, NoResult)
          ELSE /\ UNCHANGED <<cloudSession, activationPending>>
               /\ out' = Out("activateBot", [fingerprint |-> fingerprint], <<>>, <<>>, <<>>,
                             [success |-> FALSE, error |-> "Rate limit exceeded",
                              resetIn |-> rlResetIn(kept, now, ActivationWindow)])
       /\ AppFrame
       /\ UNCHANGED <<now, limiter, limiterHist>>

ActivationResponses == {"ok", "incomplete", "404", "refused"}

\* the error message activateBot returns for a failed exchange
activationError(response) ==
    CASE response = "404" -> "Invalid or expired activation token"
      [] response = "refused" -> "Cannot connect to CortexAlgo cloud"
      [] OTHER -> "Activation failed"

\* activateBot from the HTTP response to its return
ActivateResponse(response) ==
    /\ activationPending > 0
    /\ activationPending' = activationPending - 1
    /\ IF response = "ok"
       THEN /\ cloudSession' = [cloudSession EXCEPT !.botId = "bot",
                                   !.accessToken = 1, !.refreshToken = 1]
            /\ out' = Out("activateResponse", [response |-> response], <<>>, <<>>, <<>>,
                          [success |-> TRUE, error |-> Null, resetIn |-> 0])
       ELSE /\ UNCHANGED cloudSession
            /\ out' = Out("activateResponse", [response |-> response], <<>>, <<>>, <<>>,
                          [success |-> FALSE, error |-> activationError(response),
                           resetIn |-> 0])
    /\ AppFrame
    /\ UNCHANGED <<now, limiter, limiterHist, activation, activationCalls>>

\* -------------------------------------------- authService.getAccessToken
TokenFrame == UNCHANGED <<registryVars, isInitialized, initPc, hub, mainVars, socket,
                        directives,
                          fillSeq, limiter, limiterHist, activation, activationCalls,
                          activationPending, cloudSession, channelVars>>

\* the cache after a token arrived: currentToken = the token,
\* tokenExpiryTime = Date.now() + TOKEN_LIFETIME_MS
tokenStored(a, t) ==
    [currentToken |-> a.issued + 1, tokenExpiryTime |-> t + TokenLifetime,
     issued |-> a.issued + 1]

\* Date.now() advances past or towards tokenExpiryTime
TokenClock ==
    /\ now < MaxTime
    /\ now' = now + 1
    /\ brokerToken' = tokenStatus(auth, now + 1)
    /\ out' = Quiet("clock")
    /\ UNCHANGED authVars
    /\ TokenFrame

\* getAccessToken up to its return or its first await
GetAccessToken(c) ==
    /\ tokenCalls[c].pc = "idle"
    /\ UNCHANGED <<auth, brokerToken, now>>
    /\ TokenFrame
    /\ IF tokenCached(auth, now)
       THEN /\ UNCHANGED tokenCalls
            /\ out' = Out("tokenRequest", [call |-> c, ok |-> TRUE], <<>>, <<>>, <<>>,
                          [token |-> auth.currentToken, error |-> FALSE])
       ELSE IF auth.currentToken # 0
       THEN /\ tokenCalls' = [tokenCalls EXCEPT
                                 ![c] = [pc |-> "validate", bearer |-> auth.currentToken]]
            /\ out' = Out("tokenRequest", [call |-> c, ok |-> TRUE],
                          <<[kind |-> "validate", bearer |-> auth.currentToken]>>,
                          <<>>, <<>>, NoResult)
       ELSE /\ tokenCalls' = [tokenCalls EXCEPT ![c] = [pc |-> "login", bearer |-> 0]]
            /\ out' = Out("tokenRequest", [call |-> c, ok |-> TRUE],
                          <<[kind |-> "login", bearer |-> 0]>>, <<>>, <<>>, NoResult)

\* validateAndRefreshToken from the answer on: a new token is cached and
\* returned, or null is returned and getAccessToken goes on to loginWithApiKey
ValidateResponse(c, ok) ==
    /\ tokenCalls[c].pc = "validate"
    /\ ok => auth.issued < MaxTokens
    /\ UNCHANGED now
    /\ TokenFrame
    /\ IF ok
       THEN /\ auth' = tokenStored(auth, now)
            /\ tokenCalls' = [tokenCalls EXCEPT ![c] = NoCall]
            /\ out' = Out("validateResponse", [call |-> c, ok |-> ok], <<>>, <<>>, <<>>,
                          [token |-> auth.issued + 1, error |-> FALSE])
       ELSE /\ auth' = auth
            /\ tokenCalls' = [tokenCalls EXCEPT ![c] = [pc |-> "login", bearer |-> 0]]
            /\ out' = Out("validateResponse", [call |-> c, ok |-> ok],
                          <<[kind |-> "login", bearer |-> 0]>>, <<>>, <<>>, NoResult)
    /\ brokerToken' = tokenStatus(auth', now)

\* loginWithApiKey from the answer on: the token is cached and returned, or
\* the error is rethrown
LoginResponse(c, ok) ==
    /\ tokenCalls[c].pc = "login"
    /\ ok => auth.issued < MaxTokens
    /\ UNCHANGED now
    /\ TokenFrame
    /\ tokenCalls' = [tokenCalls EXCEPT ![c] = NoCall]
    /\ IF ok
       THEN /\ auth' = tokenStored(auth, now)
            /\ out' = Out("loginResponse", [call |-> c, ok |-> ok], <<>>, <<>>, <<>>,
                          [token |-> auth.issued + 1, error |-> FALSE])
       ELSE /\ auth' = auth
            /\ out' = Out("loginResponse", [call |-> c, ok |-> ok], <<>>, <<>>, <<>>,
                          [token |-> 0, error |-> TRUE])
    /\ brokerToken' = tokenStatus(auth', now)

\* ------------------------------- cloud timers: heartbeat, telemetry, refresh
ChannelFrame == UNCHANGED <<registryVars, clientVars, mainVars, directives, fillSeq,
                            authVars, now, limiter, limiterHist, activation,
                            activationCalls, activationPending, connectPromise,
                            heartbeatTimer, telemetryTimer, tokenRefreshTimer,
                            cloudApiCopy, keychainCall, replaced>>

\* the heartbeat interval callback
HeartbeatTick ==
    /\ heartbeatTimer
    /\ out' = Out("heartbeat", NoArg, <<>>, <<>>,
                  IF socket = "connected" THEN <<[ev |-> "heartbeat"]>> ELSE <<>>, NoResult)
    /\ ChannelFrame
    /\ UNCHANGED <<socket, cloudSession, storedTokens, telemetry, tokenRefresh, refreshes>>

\* sendTelemetry(accounts) with a non-empty account list, up to its await
SendTelemetryWithin(posts) ==
    LET sent == sendTelemetry(cloudSession, telemetry, now)
    IN /\ Len(telemetry.requests) < posts
       /\ telemetry.pending < MaxTelemetry
       /\ telemetry' = sent.telemetry
       /\ out' = Out("sendTelemetry", NoArg, sent.net, <<>>, <<>>, sent.result)
       /\ ChannelFrame
       /\ UNCHANGED <<socket, cloudSession, storedTokens, tokenRefresh, refreshes>>

SendTelemetry == SendTelemetryWithin(MaxTelemetry)

\* the telemetry interval callback: sendTelemetry if there are accounts
TelemetryTick ==
    /\ telemetryTimer
    /\ IF DOMAIN accounts # {} THEN SendTelemetry
       ELSE /\ out' = Quiet("telemetryTick")
            /\ ChannelFrame
            /\ UNCHANGED <<socket, cloudSession, storedTokens, telemetry, tokenRefresh,
                           refreshes>>

\* sendTelemetry from the answer on: true only for status 204
TelemetryResponse(status) ==
    /\ telemetry.pending > 0
    /\ telemetry' = [telemetry EXCEPT !.pending = @ - 1]
    /\ out' = Out("telemetryResponse", [status |-> status], <<>>, <<>>, <<>>,
                  [ok |-> status = "204", sent |-> TRUE])
    /\ ChannelFrame
    /\ UNCHANGED <<socket, cloudSession, storedTokens, tokenRefresh, refreshes>>

\* the token refresh interval callback up to the await inside
\* refreshAccessToken(refreshToken)
RefreshTick ==
    /\ tokenRefreshTimer
    /\ cloudSession.refreshToken # 0
    /\ ~refreshes.pending
    /\ refreshes.count <= MaxRefreshes
    /\ ChannelFrame
    /\ UNCHANGED <<socket, cloudSession, storedTokens, telemetry>>
    /\ tokenRefresh' = rlAfterCheck(tokenRefresh, now, TokenRefreshMaxRequests,
                                    TokenRefreshWindow)
    /\ IF rlPasses(tokenRefresh, now, TokenRefreshMaxRequests, TokenRefreshWindow)
       THEN /\ refreshes' = [refreshes EXCEPT !.pending = TRUE,
                                              !.bearer = cloudSession.refreshToken]
            /\ out' = Out("refreshTick", [refreshToken |-> cloudSession.refreshToken],
                          <<[kind |-> "refresh", refreshToken |-> cloudSession.refreshToken]>>,
                          <<>>, <<>>, NoResult)
       ELSE \* checkLimit threw: { success: false, error: error.message }
            /\ UNCHANGED refreshes
            /\ out' = Out("refreshTick", [refreshToken |-> cloudSession.refreshToken],
                          <<>>, <<>>, <<>>,
                          [success |-> FALSE, accessToken |-> 0, refreshToken |-> 0,
                           response |-> refreshBody("failed", 0),
                           error |-> "Rate limit exceeded",
                           resetIn |-> rlResetIn(rlPrune(tokenRefresh, now, TokenRefreshWindow),
                                                 now, TokenRefreshWindow)])

\* the callback from the answer on: the session's tokens are updated and
\* onTokenRefreshed stores them in the keychain. The legacy copy then
\* reopens a connected channel: disconnectWebSocket stops the heartbeat and
\* disconnects the socket (its 'disconnect' handler reports 'disconnected'),
\* and connectWebSocket creates a new socket. connectPromise, the promise
\* initializeCloudApi awaited, is not involved.
RefreshResponse(response) ==
    LET body == refreshBody(response, refreshes.count + 1)
        result == refreshResult(cloudApiCopy, refreshes.bearer, body)
        reopen == reopensAfterRefresh(cloudApiCopy, socket, result.success)
    IN /\ refreshes.pending
       /\ refreshes' = [count |-> refreshes.count + 1, pending |-> FALSE, bearer |-> 0]
       /\ socket' = IF reopen THEN "connecting" ELSE socket
       /\ heartbeatTimer' = IF reopen THEN FALSE ELSE heartbeatTimer
       /\ cloudConnectionState' = IF reopen THEN "disconnected" ELSE cloudConnectionState
       /\ trayState' = IF reopen THEN effectiveState(currentState, "disconnected")
                       ELSE trayState
       /\ out' = Out("refreshResponse", [refreshToken |-> refreshes.bearer], <<>>,
                     IF reopen
                     THEN Send(<<[ch |-> "cloud-connection-changed",
                                  status |-> "disconnected"]>>)
                     ELSE <<>>,
                     <<>>, result)
       /\ IF result.success
          THEN /\ cloudSession' = [cloudSession EXCEPT !.accessToken = result.accessToken,
                                                       !.refreshToken = result.refreshToken]
               /\ storedTokens' = [botId |-> cloudSession.botId,
                                   accessToken |-> result.accessToken,
                                   refreshToken |-> result.refreshToken,
                                   deviceFingerprint |-> storedTokens.deviceFingerprint]
          ELSE UNCHANGED <<cloudSession, storedTokens>>
       /\ UNCHANGED <<registryVars, clientVars, isTopstepInitialized, currentState,
                      mainWindow, directives, fillSeq, authVars, now, limiter, limiterHist,
                      activation, activationCalls, activationPending, connectPromise,
                      telemetryTimer, tokenRefreshTimer, telemetry, tokenRefresh,
                      cloudApiCopy, keychainCall, replaced>>

\* clearTokens(): the four session fields are set to null, then
\* disconnectWebSocket (with a socket: stopHeartbeat, socket.disconnect(),
\* socket = null; the 'disconnect' handler of a connected socket reports
\* 'disconnected'), stopTelemetryReporting and stopTokenRefresh. Requests
\* that are awaited at that moment are left to complete.
ClearTokens ==
    LET hadSocket == socket \notin {"none", "off"}
        wasConnected == socket = "connected"
    IN /\ cloudSession' = NoSession
       /\ socket' = IF hadSocket THEN "off" ELSE socket
       /\ heartbeatTimer' = IF hadSocket THEN FALSE ELSE heartbeatTimer
       /\ telemetryTimer' = FALSE
       /\ tokenRefreshTimer' = FALSE
       /\ cloudConnectionState' = IF wasConnected THEN "disconnected"
                                  ELSE cloudConnectionState
       /\ trayState' = IF wasConnected THEN effectiveState(currentState, "disconnected")
                       ELSE trayState
       /\ out' = Out("clearTokens", NoArg, <<>>,
                     IF wasConnected
                     THEN Send(<<[ch |-> "cloud-connection-changed",
                                  status |-> "disconnected"]>>)
                     ELSE <<>>,
                     <<>>, NoResult)
       /\ UNCHANGED <<registryVars, clientVars, isTopstepInitialized, currentState,
                      mainWindow, directives, fillSeq, authVars, now, limiter, limiterHist,
                      activation, activationCalls, activationPending, storedTokens,
                      connectPromise, telemetry, tokenRefresh, refreshes, cloudApiCopy,
                      keychainCall, replaced>>

\* setTokens(tokens): the four session fields are set from the argument
SetTokens(tokens) ==
    /\ cloudSession' = tokens
    /\ out' = Out("setTokens", tokens, <<>>, <<>>, <<>>, NoResult)
    /\ UNCHANGED <<registryVars, clientVars, mainVars, socket, directives, fillSeq,
                   authVars, now, limiter, limiterHist, activation, activationCalls,
                   activationPending, channelVars>>

\* the variables no step of the socket calls below touches
SocketFrame == UNCHANGED <<registryVars, clientVars, isTopstepInitialized, currentState,
                           mainWindow, directives, fillSeq, cloudApiVars, authVars,
                           storedTokens, connectPromise, telemetryTimer, tokenRefreshTimer,
                           telemetry, tokenRefresh, refreshes, cloudApiCopy, keychainCall>>

\* onConnectionStateChanged(state) as main.js handles it
ReportCloudState(op, state) ==
    /\ cloudConnectionState' = state
    /\ trayState' = effectiveState(currentState, state)
    /\ out' = Out(op, [state |-> state], <<>>,
                  Send(<<[ch |-> "cloud-connection-changed", status |-> state]>>),
                  <<>>, NoResult)

\* connectWebSocket(token) called again, once the connect initializeCloudApi
\* awaited has settled (main.js calls initializeCloudApi again after an
\* activation). if (socket && socket.connected) socket.disconnect(): only a
\* connected socket is closed (its 'disconnect' handler runs). A socket
\* that is still connecting, or reconnecting after an error, is left open
\* with its handlers and its reconnection, and the variable is overwritten
\* with the new socket. One such socket is followed.
ConnectWebSocket ==
    /\ connectPromise # "pending"
    /\ replaced = "none"
    /\ socket' = "connecting"
    /\ SocketFrame
    /\ IF socket = "connected"
       THEN /\ replaced' = "none"
            /\ heartbeatTimer' = FALSE
            /\ ReportCloudState("connectWebSocket", "disconnected")
       ELSE /\ replaced' = IF socket \in {"connecting", "disconnected"} THEN socket
                           ELSE "none"
            /\ out' = Quiet("connectWebSocket")
            /\ UNCHANGED <<heartbeatTimer, cloudConnectionState, trayState>>

\* disconnectWebSocket(): with a socket, stopHeartbeat, socket.disconnect()
\* (the 'disconnect' handler of a connected socket runs), socket = null
DisconnectWebSocket ==
    /\ socket \notin {"none", "off"}
    /\ socket' = "off"
    /\ heartbeatTimer' = FALSE
    /\ replaced' = replaced
    /\ SocketFrame
    /\ IF socket = "connected"
       THEN ReportCloudState("disconnectWebSocket", "disconnected")
       ELSE /\ out' = Quiet("disconnectWebSocket")
            /\ UNCHANGED <<cloudConnectionState, trayState>>

\* 'connect' on the socket that was replaced: its handler sets isConnected,
\* reports 'connected' and calls startHeartbeat
ReplacedConnect ==
    /\ replaced \in {"connecting", "disconnected"}
    /\ replaced' = "connected"
    /\ heartbeatTimer' = TRUE
    /\ socket' = socket
    /\ SocketFrame
    /\ ReportCloudState("replaced_connect", "connected")

\* 'disconnect' on the socket that was replaced: isConnected = false,
\* stopHeartbeat, 'disconnected' is reported; it reconnects by itself
ReplacedDisconnect ==
    /\ replaced = "connected"
    /\ replaced' = "disconnected"
    /\ heartbeatTimer' = FALSE
    /\ socket' = socket
    /\ SocketFrame
    /\ ReportCloudState("replaced_disconnect", "disconnected")

\* ------------------------------------------------------------ specification
\* the application at start-up, before whenReady runs
InitApp ==
    /\ accounts = NoAccounts
    /\ masterKillSwitch = FALSE
    /\ brokerToken = "none"
    /\ isInitialized = FALSE
    /\ initPc = "idle"
    /\ hub = "none"
    /\ isTopstepInitialized = FALSE
    /\ currentState = "connecting"
    /\ cloudConnectionState = "disconnected"
    /\ trayState = effectiveState("connecting", "disconnected")
    /\ mainWindow = TRUE
    /\ socket = "none"
    /\ directives = [s \in 1..MaxDirectives |-> Idle]
    /\ fillSeq = [a \in AccountIds |-> 0]

Init ==
    /\ InitApp
    /\ InitCloudApi
    /\ InitAuth
    /\ storedTokens = Activated
    /\ limiter = NewRateLimiter(1, 1)
    /\ out = Quiet("start")

Next ==
    \/ \E creds \in {"none", "invalid", "ok"} : InitializeTopstepX(creds)
    \/ \E which \in {"auth", "hub"}, ok \in BOOLEAN : InitTokenStep(which, ok)
    \/ \E list \in AccountLists \cup {<<>>} : InitAccountsResponse(list)
    \/ \E connected \in BOOLEAN : InitHubStarted(connected)
    \/ TokenExpires
    \/ \E r \in RefreshResponses : InitializeCloudApi(r)
    \/ SocketConnect
    \/ SocketConnectError
    \/ ConnectTimeout
    \/ SocketDisconnect
    \/ SocketReconnectAttempt
    \/ \E c \in {"SET_TRADING_STATUS", "PING"}, p, e \in BOOLEAN : CloudCommand(c, p, e)
    \/ \E e \in BOOLEAN : SetMasterKillSwitchIpc(e)
    \/ \E a \in AccountIds, e \in BOOLEAN : SetAccountTradingIpc(a, e)
    \/ AppQuit
    \/ \E d \in SomeDirectives : TradeDirective(d, MaxDirectives)
    \/ \E s \in 1..MaxDirectives, ok \in BOOLEAN : DirectiveTokenStep(s, ok)
    \/ \E s \in 1..MaxDirectives, r \in OrderResponses : OrderResponse(s, r)

Spec == Init /\ [][Next]_vars

\* The order pipeline on its own: the broker client is initialized with both
\* accounts, the cloud channel is connected, the token cache holds a token
\* that is valid or has expired, and every directive may arrive, one at a
\* time.
InitOrder ==
    /\ accounts = initializeAccounts(NoAccounts, <<Account(1), Account(2)>>)
    /\ masterKillSwitch = TRUE
    /\ brokerToken \in {"valid", "expired"}
    /\ isInitialized = TRUE
    /\ initPc = "done"
    /\ hub = "connected"
    /\ isTopstepInitialized = TRUE
    /\ currentState = "connected"
    /\ cloudConnectionState = "connected"
    /\ trayState = effectiveState("connected", "connected")
    /\ mainWindow = TRUE
    /\ socket = "connected"
    /\ directives = [s \in 1..MaxDirectives |-> Idle]
    /\ fillSeq = [a \in AccountIds |-> 0]
    /\ InitCloudApi
    /\ InitAuth
    /\ storedTokens = Activated
    /\ limiter = NewRateLimiter(1, 1)
    /\ out = Quiet("start")

NextOrder ==
    \/ \E d \in AllDirectives : TradeDirective(d, 1)
    \/ \E ok \in BOOLEAN : DirectiveTokenStep(1, ok)
    \/ \E r \in OrderResponses : OrderResponse(1, r)
    \/ TokenExpires

SpecOrder == InitOrder /\ [][NextOrder]_vars

\* The keychain on its own: an installation that is activated or not, and
\* any sequence of storeCloudTokens and getCloudTokens calls.
InitKeychain ==
    /\ InitApp
    /\ InitCloudApi
    /\ InitAuth
    /\ storedTokens \in {NoStored, Activated}
    /\ limiter = NewRateLimiter(1, 1)
    /\ out = Quiet("start")

NextKeychain ==
    \/ \E tokens \in StoreArguments : StoreCloudTokens(tokens)
    \/ \E ok \in BOOLEAN : StoreStep(ok)
    \/ \E ok \in BOOLEAN : GetCloudTokens(ok)

SpecKeychain == InitKeychain /\ [][NextKeychain]_vars

\* The orchestrator's two connections: the broker client is initialized and
\* its hub connection is lost and restored, the cloud channel is opened and
\* its socket connects and drops, and the window asks for the state.
NextShell ==
    \/ InitializeTopstepX("ok")
    \/ \E which \in {"auth", "hub"} : InitTokenStep(which, TRUE)
    \/ InitAccountsResponse(<<Account(1)>>)
    \/ \E connected \in BOOLEAN : InitHubStarted(connected)
    \/ HubReconnecting
    \/ HubReconnected
    \/ InitializeCloudApi("access")
    \/ SocketConnect
    \/ SocketConnectError
    \/ SocketDisconnect
    \/ SocketReconnectAttempt
    \/ GetAppState
    \/ AppQuit

SpecShell == Init /\ [][NextShell]_vars

\* Overlapping receipts: the order pipeline as above with up to MaxInFlight
\* handler invocations suspended at once; the directives are one for each
\* account and one whose action maps to no side.
PipelineDirectives == SomeDirectives \cup {Directive("1", "HOLD", "ES", 1)}

InitPipeline ==
    /\ accounts = initializeAccounts(NoAccounts, <<Account(1), Account(2)>>)
    /\ masterKillSwitch = TRUE
    /\ brokerToken \in {"valid", "expired"}
    /\ isInitialized = TRUE
    /\ initPc = "done"
    /\ hub = "connected"
    /\ isTopstepInitialized = TRUE
    /\ currentState = "connected"
    /\ cloudConnectionState = "connected"
    /\ trayState = effectiveState("connected", "connected")
    /\ mainWindow = TRUE
    /\ socket = "connected"
    /\ directives = [s \in 1..MaxInFlight |-> Idle]
    /\ fillSeq = [a \in AccountIds |-> 0]
    /\ InitCloudApi
    /\ InitAuth
    /\ storedTokens = Activated
    /\ limiter = NewRateLimiter(1, 1)
    /\ out = Quiet("start")

NextPipeline ==
    \/ \E d \in PipelineDirectives : TradeDirective(d, MaxInFlight)
    \/ \E s \in 1..MaxInFlight, ok \in BOOLEAN : DirectiveTokenStep(s, ok)
    \/ \E s \in 1..MaxInFlight, r \in OrderResponses : OrderResponse(s, r)
    \/ TokenExpires

SpecPipeline == InitPipeline /\ [][NextPipeline]_vars

\* The pipeline with what the code guarantees about its awaits: the order
\* request carries timeout: 10000, so its promise settles, and a cached
\* token is returned without a request. The requests of getAccessToken to
\* /api/Auth/validate and /api/Auth/loginKey carry no timeout (axios then
\* waits without limit), so nothing guarantees that they settle.
PipelineFairness ==
    \A s \in 1..MaxInFlight :
        /\ WF_vars(\E r \in OrderResponses : OrderResponse(s, r))
        /\ WF_vars(directives[s].pc = "cached" /\ DirectiveTokenStep(s, TRUE))

SpecPipelineFair == SpecPipeline /\ PipelineFairness

\* The fill feed on its own: the registry holds the accounts the broker
\* returned and Fill events arrive for any account id.
InitFills ==
    /\ \E list \in AccountLists : accounts = initializeAccounts(NoAccounts, list)
    /\ masterKillSwitch = TRUE
    /\ brokerToken = "valid"
    /\ isInitialized = TRUE
    /\ initPc = "done"
    /\ hub = "connected"
    /\ isTopstepInitialized = TRUE
    /\ currentState = "connected"
    /\ cloudConnectionState = "disconnected"
    /\ trayState = effectiveState("connected", "disconnected")
    /\ mainWindow = TRUE
    /\ socket = "none"
    /\ directives = [s \in 1..MaxDirectives |-> Idle]
    /\ fillSeq = [a \in AccountIds |-> 0]
    /\ InitCloudApi
    /\ InitAuth
    /\ storedTokens = Activated
    /\ limiter = NewRateLimiter(1, 1)
    /\ out = Quiet("start")

NextFills == \E a \in AccountIds \cup {0} : HandleFill(a)

SpecFills == InitFills /\ [][NextFills]_vars

\* The registry under every operation of accountManager and the feed
\* handlers of topstepClient, in any order, from an initialized client.
NextRegistry ==
    \/ \E list \in RegistryLists : InitializeAccounts(list)
    \/ \E u \in AccountUpdates : HandleAccountUpdate(u)
    \/ \E a \in {0, 2} : HandlePositionUpdate(a)
    \/ AddFill(1)
    \/ \E e \in BOOLEAN : SetMasterKillSwitchIpc(e)
    \/ \E a \in AccountIds, e \in BOOLEAN : SetAccountTradingIpc(a, e)
    \/ Reset
    \/ Shutdown
    \/ ShutdownResume

SpecRegistry == InitFills /\ [][NextRegistry]_vars

\* The broker client through initialize and shutdown, called in any order
\* (one initialize at a time), with the operator's switches in between.
NextClient ==
    \/ \E creds \in {"valid", "invalid"} : TopstepInitialize(creds)
    \/ \E which \in {"auth", "hub"}, ok \in BOOLEAN : InitTokenStep(which, ok)
    \/ \E list \in AccountLists \cup {<<>>} : InitAccountsResponse(list)
    \/ \E connected \in BOOLEAN : InitHubStarted(connected)
    \/ Shutdown
    \/ ShutdownResume
    \/ TokenExpires
    \/ \E e \in BOOLEAN : SetMasterKillSwitchIpc(e)
    \/ \E a \in AccountIds, e \in BOOLEAN : SetAccountTradingIpc(a, e)

SpecClient == InitFills /\ [][NextClient]_vars

\* A RateLimiter of any small size against the clock.
InitLimiter ==
    /\ InitApp
    /\ InitCloudApi
    /\ InitAuth
    /\ storedTokens = Activated
    /\ \E n \in 1..MaxLimit, w \in 1..MaxWindow : limiter = NewRateLimiter(n, w)
    /\ out = Quiet("start")

NextLimiter ==
    \/ Tick
    \/ CheckLimit
    \/ GetStats

SpecLimiter == InitLimiter /\ [][NextLimiter]_vars

\* Activation before the broker client starts: activateBot calls, their
\* HTTP responses and the clock.
NextActivation ==
    \/ Tick
    \/ ActivateBot("fp")
    \/ \E r \in ActivationResponses : ActivateResponse(r)

InitActivation ==
    /\ InitApp
    /\ InitCloudApi
    /\ InitAuth
    /\ storedTokens = NoStored
    /\ limiter = NewRateLimiter(1, 1)
    /\ out = Quiet("start")

SpecActivation == InitActivation /\ [][NextActivation]_vars

\* The broker token cache on its own: authService is initialized with
\* credentials, getAccessToken is called by several callers, the broker
\* answers, the clock passes the expiry time.
NextToken ==
    \/ TokenClock
    \/ \E c \in 1..MaxTokenCalls : GetAccessToken(c)
    \/ \E c \in 1..MaxTokenCalls, ok \in BOOLEAN : ValidateResponse(c, ok)
    \/ \E c \in 1..MaxTokenCalls, ok \in BOOLEAN : LoginResponse(c, ok)

SpecToken == Init /\ [][NextToken]_vars

\* The cloud session on its own: initializeTopstepX has returned, with the
\* broker client initialized or not, and initializeCloudApi runs; then the
\* socket's events, the three timers and cloud commands.
InitCloud ==
    /\ \/ /\ accounts = initializeAccounts(NoAccounts, <<Account(1)>>)
          /\ masterKillSwitch = TRUE
          /\ brokerToken = "valid"
          /\ isInitialized = TRUE
          /\ initPc = "done"
          /\ hub = "connected"
          /\ isTopstepInitialized = TRUE
          /\ currentState = "connected"
          /\ trayState = effectiveState("connected", "disconnected")
       \/ /\ accounts = NoAccounts
          /\ masterKillSwitch = FALSE
          /\ brokerToken = "none"
          /\ isInitialized = FALSE
          /\ initPc = "failed"
          /\ hub = "none"
          /\ isTopstepInitialized = FALSE
          /\ currentState = "warning"
          /\ trayState = effectiveState("warning", "disconnected")
    /\ cloudConnectionState = "disconnected"
    /\ mainWindow = TRUE
    /\ socket = "none"
    /\ directives = [s \in 1..MaxDirectives |-> Idle]
    /\ fillSeq = [a \in AccountIds |-> 0]
    /\ now = 0
    /\ limiterHist = [first |-> -1, calls |-> 0, late |-> 0]
    /\ activation = <<>>
    /\ activationCalls = <<>>
    /\ activationPending = 0
    /\ cloudSession = NoSession
    /\ telemetry = [requests |-> <<>>, pending |-> 0]
    /\ tokenRefresh = <<>>
    /\ refreshes = [count |-> 0, pending |-> FALSE, bearer |-> 0]
    /\ connectPromise = "none"
    /\ heartbeatTimer = FALSE
    /\ telemetryTimer = FALSE
    /\ tokenRefreshTimer = FALSE
    /\ cloudApiCopy \in CloudApiCopies
    /\ keychainCall = NoStore
    /\ replaced = "none"
    /\ InitAuth
    /\ storedTokens = Activated
    /\ limiter = NewRateLimiter(1, 1)
    /\ out = Quiet("start")

NextCloud ==
    \/ \E r \in RefreshResponses : InitializeCloudApi(r)
    \/ SocketConnect
    \/ SocketConnectError
    \/ ConnectTimeout
    \/ SocketDisconnect
    \/ SocketReconnectAttempt
    \/ HeartbeatTick
    \/ TelemetryTick
    \/ \E st \in {"204", "200", "error"} : TelemetryResponse(st)
    \/ RefreshTick
    \/ \E r \in RefreshResponses : RefreshResponse(r)
    \/ \E c \in {"SET_TRADING_STATUS", "PING"}, p, e \in BOOLEAN : CloudCommand(c, p, e)

SpecCloud == InitCloud /\ [][NextCloud]_vars

\* The cloud session as above, with clearTokens and setTokens called at any
\* moment.
NextSession ==
    \/ NextCloud
    \/ ClearTokens
    \/ SetTokens(Activated)

SpecSession == InitCloud /\ [][NextSession]_vars

\* The cloud session as above, with connectWebSocket and
\* disconnectWebSocket called at any moment after the first connect settled.
NextSockets ==
    \/ NextCloud
    \/ ConnectWebSocket
    \/ DisconnectWebSocket
    \/ ReplacedConnect
    \/ ReplacedDisconnect

SpecSockets == InitCloud /\ [][NextSockets]_vars

\* sendTelemetry on its own, called in every state of the session's access
\* token and device fingerprint.
InitTelemetry ==
    /\ InitApp
    /\ now = 0
    /\ limiterHist = [first |-> -1, calls |-> 0, late |-> 0]
    /\ activation = <<>>
    /\ activationCalls = <<>>
    /\ activationPending = 0
    /\ \E t \in {0, 1}, fp \in {Null, "fp"} :
          cloudSession = [botId |-> "bot", accessToken |-> t, refreshToken |-> t,
                          deviceFingerprint |-> fp]
    /\ telemetry = [requests |-> <<>>, pending |-> 0]
    /\ tokenRefresh = <<>>
    /\ refreshes = [count |-> 0, pending |-> FALSE, bearer |-> 0]
    /\ connectPromise = "none"
    /\ heartbeatTimer = FALSE
    /\ telemetryTimer = FALSE
    /\ tokenRefreshTimer = FALSE
    /\ cloudApiCopy = "current"
    /\ keychainCall = NoStore
    /\ replaced = "none"
    /\ InitAuth
    /\ storedTokens = Activated
    /\ limiter = NewRateLimiter(1, 1)
    /\ out = Quiet("start")

NextTelemetry ==
    \/ Tick
    \/ SendTelemetry
    \/ \E st \in {"204", "200", "error"} : TelemetryResponse(st)

SpecTelemetry == InitTelemetry /\ [][NextTelemetry]_vars

\* sendTelemetry called as often as the telemetry limiter lets it be, and
\* once more, by an activated session.
InitTelemetryBurst ==
    /\ InitTelemetry
    /\ cloudSession = Activated

NextTelemetryBurst ==
    \/ Tick
    \/ SendTelemetryWithin(TelemetryMaxRequests + 1)
    \/ \E st \in {"204", "error"} : TelemetryResponse(st)

SpecTelemetryBurst == InitTelemetryBurst /\ [][NextTelemetryBurst]_vars

\* ================================================================== claims
\* the authorization condition, stated on the registry itself
Authorized(id) ==
    masterKillSwitch /\ id \in DOMAIN accounts /\ accounts[id].tradingEnabled
IsDirective(x) == x \in AllDirectives
HasNote(ch) == \E i \in 1..Len(out.ui) : out.ui[i].ch = ch
OrdersIn(net) == {i \in 1..Len(net) : net[i].kind = "order"}

\* C1: for every account id, canTrade(id) is true iff the master switch is
\* true and the id is in the registry with tradingEnabled true; right after
\* the master switch was set to false no account can trade, whatever its own
\* flag; an id that is not in the registry cannot trade.
C1_CanTradeIffMasterAndAccount ==
    /\ \A id \in AccountIds \cup {NaN} : canTrade(id) <=> Authorized(id)
    /\ \A id \in (AccountIds \cup {NaN}) \ DOMAIN accounts : ~canTrade(id)
    /\ (out.op = "set-master-kill-switch" /\ out.result.success /\ ~out.arg.enabled)
          => \A id \in AccountIds : ~canTrade(id)
C1_Witness ==
    /\ out.op = "set-master-kill-switch" /\ out.result.success /\ ~out.arg.enabled
    /\ \E id \in DOMAIN accounts : accounts[id].tradingEnabled
    /\ DOMAIN accounts # AccountIds

\* C2 (as claimed): whenever a step issues the order-placement request for
\* an account, the master switch is true and that account's tradingEnabled
\* is true at that moment.
C2_KillSwitchNeverBypassed ==
    \A i \in OrdersIn(out.net) : Authorized(out.net[i].accountId)

\* C3 (as claimed): a directive received while canTrade is false is never
\* handed to submitOrder and signal-rejected with reason "Kill switch enabled"
\* is sent.
C3_RejectedWheneverUnauthorized ==
    (out.op = "trade_directive" /\ ~Authorized(parseInt(out.arg.accountId)))
        => /\ ~out.result.submitOrder
           /\ out.ui = <<[ch |-> "signal-rejected", reason |-> "Kill switch enabled",
                          echo |-> Echo(out.arg)]>>

\* C3 (amended): a directive received while canTrade is false is never handed
\* to submitOrder and issues no request; when the broker client is
\* initialized (isTopstepInitialized) and the window exists, signal-rejected
\* with reason "Kill switch enabled" is sent; otherwise nothing is sent.
C3_RejectedWhenInitialized ==
    (out.op = "trade_directive" /\ ~Authorized(parseInt(out.arg.accountId)))
        => /\ ~out.result.submitOrder
           /\ out.net = <<>>
           /\ out.ui = IF isTopstepInitialized /\ mainWindow
                       THEN <<[ch |-> "signal-rejected", reason |-> "Kill switch enabled",
                               echo |-> Echo(out.arg)]>>
                       ELSE <<>>
C3_Witness ==
    /\ out.op = "trade_directive"
    /\ isTopstepInitialized /\ mainWindow
    /\ ~masterKillSwitch
    /\ parseInt(out.arg.accountId) \in DOMAIN accounts
    /\ accounts[parseInt(out.arg.accountId)].tradingEnabled
    /\ HasNote("signal-rejected")

\* C4 (as claimed): the master switch is never true in a state where the
\* broker client's initialization has not completed successfully.
C4_MasterOffUntilInitialized ==
    masterKillSwitch => isInitialized

\* C5: the effective state shown is Connected only when the broker state is
\* Connected and the cloud channel is connected; whenever the broker state
\* is Connected and the cloud channel is not connected it is Warning.
C5_DerivedState ==
    /\ trayState = "connected"
          => (currentState = "connected" /\ cloudConnectionState = "connected")
    /\ (currentState = "connected" /\ cloudConnectionState # "connected")
          => trayState = "warning"
C5_Witness ==
    /\ out.op = "disconnect"
    /\ currentState = "connected"
    /\ cloudConnectionState = "disconnected"
    /\ trayState = "warning"

\* ----------------------------------------------------------------------- C6
\* C6: after any sequence of addFill calls on a known account its
\* recentFills holds at most 50 entries, the most recently added fill is at
\* index 0 and the rest follow newest-first: entry i is the i-th most
\* recent of the fills delivered for that account.
C6_RecentFillsNewestFirstCapped ==
    \A a \in DOMAIN accounts :
        LET fills == accounts[a].recentFills
        IN /\ Len(fills) <= FillCap
           /\ Len(fills) = IF fillSeq[a] < FillCap THEN fillSeq[a] ELSE FillCap
           /\ \A i \in 1..Len(fills) :
                  fills[i] = [accountId |-> a, id |-> fillSeq[a] - i + 1]

\* more than 50 fills were added to an account, the last one just now
C6_Witness ==
    /\ out.op = "handleFill"
    /\ out.arg.accountId \in DOMAIN accounts
    /\ fillSeq[out.arg.accountId] > FillCap
    /\ Len(accounts[out.arg.accountId].recentFills) = FillCap
    /\ accounts[out.arg.accountId].recentFills[1] = out.arg

\* ----------------------------------------------------------------------- C7
\* C7: for a RateLimiter(N, W), of the checkLimit calls made less than W
\* after the first call exactly the first N succeed and every later one
\* fails; a call made when no recorded request is younger than W succeeds,
\* and so does the first call made once W has elapsed since the first call.
C7_FirstNWithinWindowThenFree ==
    out.op = "checkLimit" =>
        /\ now - limiterHist.first < limiter.windowMs
              => (out.result.ok <=> limiterHist.calls <= limiter.maxRequests)
        /\ (out.result.oldest = -1 \/ now - out.result.oldest >= limiter.windowMs)
              => out.result.ok
        /\ limiterHist.late = 1 => out.result.ok

\* N + 1 calls were made inside the window of the first one, and the next
\* call, the first after the window elapsed, has just succeeded
C7_Witness ==
    /\ out.op = "checkLimit"
    /\ limiterHist.calls = limiter.maxRequests + 2
    /\ limiterHist.late = 1
    /\ limiter.maxRequests = MaxLimit
    /\ out.result.ok

\* ----------------------------------------------------------------------- C8
\* C8: an activateBot call passes the activation limiter exactly when fewer
\* than 5 earlier calls passed within the hour before it, whatever became
\* of their HTTP exchanges; so of six calls within one hour the first five
\* pass and the sixth does not. A call the limiter rejects returns a
\* rate-limit failure and issues no HTTP request.
C8_PassedWithin(i) ==
    {j \in 1..(i - 1) : /\ activationCalls[j].passed
                        /\ activationCalls[i].t - activationCalls[j].t < ActivationWindow}

C8_SixthActivationRejected ==
    /\ \A i \in 1..Len(activationCalls) :
          activationCalls[i].passed <=> Cardinality(C8_PassedWithin(i)) < 5
    /\ (/\ Len(activationCalls) >= 6
        /\ activationCalls[6].t - activationCalls[1].t < ActivationWindow)
          => /\ ~activationCalls[6].passed
             /\ \A i \in 1..5 : activationCalls[i].passed
    /\ (out.op = "activateBot" /\ ~activationCalls[Len(activationCalls)].passed)
          => /\ out.net = <<>>
             /\ out.result.success = FALSE
             /\ out.result.error = "Rate limit exceeded"
    /\ (out.op = "activateBot" /\ activationCalls[Len(activationCalls)].passed)
          => Len(out.net) = 1

\* the sixth call within the hour has just been rejected, after all five
\* earlier exchanges failed
C8_Witness ==
    /\ out.op = "activateBot"
    /\ Len(activationCalls) = 6
    /\ activationCalls[6].t - activationCalls[1].t < ActivationWindow
    /\ activationPending = 0
    /\ cloudSession.botId = Null
    /\ out.result.success = FALSE

\* C9 (as claimed): submitOrder for a directive with an unmapped action or an
\* unmapped symbol issues no HTTP request at any of its steps.
C9_UnmappedIssuesNoRequest ==
    (/\ out.op \in {"trade_directive", "getAccessToken"}
     /\ IsDirective(out.arg)
     /\ \/ out.arg.action \notin {"ENTRY_LONG", "ENTRY_SHORT", "EXIT", "EXIT_LONG", "EXIT_SHORT"}
        \/ out.arg.symbol \notin {"NQ", "ES", "YM", "RTY"})
        => out.net = <<>>

\* C10: when submitOrder resumes with a token for a directive whose action is
\* ENTRY_LONG, ENTRY_SHORT, EXIT_LONG or EXIT_SHORT and whose symbol is in the
\* table, the request posted is a market order (type 2) for the parsed
\* account id, contractId = table[symbol], size = the contract count, side 0
\* (buy) for ENTRY_LONG / EXIT_SHORT and 1 (sell) for ENTRY_SHORT / EXIT_LONG;
\* and no other order request is ever posted for these actions.
C10_ExpectedContract(symbol) ==
    CASE symbol = "NQ" -> "CON.F.US.ENQ.Z25"
      [] symbol = "ES" -> "CON.F.US.EP.Z25"
      [] symbol = "YM" -> "CON.F.US.YM.Z25"
      [] symbol = "RTY" -> "CON.F.US.RTY.Z25"
C10_ExpectedOrder(d) ==
    [kind |-> "order", accountId |-> parseInt(d.accountId),
     contractId |-> C10_ExpectedContract(d.symbol),
     side |-> IF d.action \in {"ENTRY_LONG", "EXIT_SHORT"} THEN 0 ELSE 1,
     type |-> 2, size |-> d.contracts]
C10_OrderMapping ==
    (/\ IsDirective(out.arg)
     /\ out.arg.action \in {"ENTRY_LONG", "ENTRY_SHORT", "EXIT_LONG", "EXIT_SHORT"}
     /\ out.arg.symbol \in {"NQ", "ES", "YM", "RTY"})
        => /\ (out.op = "getAccessToken" /\ out.result = NoResult
                 /\ out.net # <<[kind |-> "login"]>>)
                 => out.net = <<C10_ExpectedOrder(out.arg)>>
           /\ \A i \in OrdersIn(out.net) : out.net[i] = C10_ExpectedOrder(out.arg)
C10_Witness ==
    /\ out.arg = Directive("2", "ENTRY_LONG", "ES", 2)
    /\ out.net = <<[kind |-> "order", accountId |-> 2, contractId |-> "CON.F.US.EP.Z25",
                    side |-> 0, type |-> 2, size |-> 2]>>
    /\ directives[1].pc = "post"

\* ---------------------------------------------------------------------- C11
\* C11 (as claimed): the order request submitted for an EXIT directive
\* carries neither the fixed buy nor the fixed sell side code, and differs
\* from the requests the same directive would produce as EXIT_LONG and as
\* EXIT_SHORT.
C11_ExitRequest(d, action) ==
    orderRequest(parseInt(d.accountId), mapActionToSide(action),
                 mapSymbolToContractId(d.symbol), d.contracts)

C11_ExitSideLeftToBroker ==
    \A i \in OrdersIn(out.net) :
        out.arg.action = "EXIT"
            => /\ out.net[i].side \notin {SideBuy, SideSell}
               /\ out.net[i] # C11_ExitRequest(out.arg, "EXIT_LONG")
               /\ out.net[i] # C11_ExitRequest(out.arg, "EXIT_SHORT")

\* ---------------------------------------------------------------------- C12
\* C12 (as claimed): submitOrder always resolves to a result object: with
\* success false, the error and the echoed context when the token fetch
\* failed or the broker did not place the order (HTTP error, timeout,
\* rejection), and with success true and the broker's order id when the
\* order was placed.
C12_ResultReflectsOutcome ==
    (out.op \in {"getAccessToken", "orderResponse"} /\ out.result # NoResult)
        => /\ out.result.echo = Echo(out.arg)
           /\ out.result.success
                 => (out.result.orderId # Null /\ out.result.rawResponse.success)

\* ---------------------------------------------------------------------- C13
\* C13: getAccessToken returns the cached token without a request when a
\* token is cached and now < expiry; otherwise it first sends validate with
\* the existing token if there is one, and sends login only when there is no
\* token or validate failed; after every successful validate or login the
\* cached token is the new token and the expiry is now + lifetime; when
\* login fails the error propagates and the cache is unchanged.
C13_Fresh ==
    /\ auth'.currentToken = out'.result.token
    /\ auth'.currentToken > auth.issued
    /\ auth'.tokenExpiryTime = now + TokenLifetime
    /\ ~out'.result.error

C13_TokenCacheProtocol ==
    [][ /\ out'.op = "tokenRequest" =>
            /\ auth' = auth
            /\ IF auth.currentToken # 0 /\ auth.tokenExpiryTime # -1
                  /\ now < auth.tokenExpiryTime
               THEN out'.net = <<>> /\ out'.result.token = auth.currentToken
               ELSE IF auth.currentToken # 0
               THEN out'.net = <<[kind |-> "validate", bearer |-> auth.currentToken]>>
               ELSE out'.net = <<[kind |-> "login", bearer |-> 0]>>
        /\ out'.op = "validateResponse" =>
            IF out'.arg.ok THEN C13_Fresh /\ out'.net = <<>>
            ELSE auth' = auth /\ out'.net = <<[kind |-> "login", bearer |-> 0]>>
        /\ out'.op = "loginResponse" =>
            IF out'.arg.ok THEN C13_Fresh /\ out'.net = <<>>
            ELSE auth' = auth /\ out'.result.error /\ out'.net = <<>>
      ]_vars

\* a token expired, validate failed, and the login that followed has just
\* failed too
C13_Witness ==
    /\ out.op = "loginResponse"
    /\ ~out.arg.ok
    /\ out.result.error
    /\ auth.currentToken # 0
    /\ now >= auth.tokenExpiryTime

\* ---------------------------------------------------------------------- C14
\* C14 (as claimed): a periodic token refresh, successful or not, leaves the cloud
\* channel alone: across the refresh tick and its answer the socket, the
\* connected state, the connect promise and the heartbeat timer are
\* unchanged, nothing is emitted on the socket and no connection state
\* notification is produced.
C14_RefreshLeavesChannel ==
    [][ out'.op \in {"refreshTick", "refreshResponse"} =>
            /\ socket' = socket
            /\ cloudConnectionState' = cloudConnectionState
            /\ connectPromise' = connectPromise
            /\ heartbeatTimer' = heartbeatTimer
            /\ out'.emit = <<>>
            /\ \A i \in 1..Len(out'.ui) : out'.ui[i].ch # "cloud-connection-changed"
      ]_vars

\* ---------------------------------------------------------------------- C15
\* C15 (as claimed): after a successful refresh the tokens returned, held by
\* the session and persisted are the fields of the server's answer: its
\* access token, and its refresh token when it carries one, the previous
\* refresh token otherwise.
C15_TokensAsReturned ==
    (out.op \in {"initializeCloudApi", "refreshResponse"} /\ out.result.success)
        => LET body == out.result.response
               expected == IF body.refreshToken # 0 THEN body.refreshToken
                           ELSE out.arg.refreshToken
           IN /\ out.result.accessToken = body.accessToken
              /\ out.result.refreshToken = expected
              /\ cloudSession.accessToken = body.accessToken
              /\ cloudSession.refreshToken = expected
              /\ storedTokens.accessToken = body.accessToken
              /\ storedTokens.refreshToken = expected

\* ---------------------------------------------------------------------- C16
\* C16: after any sequence of connect, disconnect, connect_error and
\* reconnect events the heartbeat timer runs exactly while the channel is
\* connected (stopped by every disconnect, started by every connect), and a
\* heartbeat is emitted only on a connected channel.
C16_HeartbeatFollowsChannel ==
    /\ heartbeatTimer <=> socket = "connected"
    /\ out.op = "disconnect" => ~heartbeatTimer
    /\ out.op = "connect" => heartbeatTimer
    /\ (out.op = "heartbeat" /\ out.emit # <<>>) => socket = "connected"

\* a heartbeat is emitted on a channel that connected after a failed attempt
C16_Witness ==
    /\ out.op = "heartbeat"
    /\ out.emit = <<[ev |-> "heartbeat"]>>
    /\ connectPromise = "rejected"
    /\ socket = "connected"

\* ---------------------------------------------------------------------- C17
\* C17: sendTelemetry called while the session has no access token or no
\* device fingerprint issues no request and returns false, leaves the
\* telemetry rate limiter as it was and leaves nothing pending.
C17_TelemetryNeedsTokenAndFingerprint ==
    [][ (/\ out'.op = "sendTelemetry"
         /\ (cloudSession.accessToken = 0 \/ cloudSession.deviceFingerprint = Null))
            => /\ out'.net = <<>>
               /\ ~out'.result.ok
               /\ telemetry' = telemetry
      ]_vars

\* sendTelemetry has just returned without a request for a session that has
\* an access token but no device fingerprint
C17_Witness ==
    /\ out.op = "sendTelemetry"
    /\ cloudSession.accessToken # 0
    /\ cloudSession.deviceFingerprint = Null
    /\ out.net = <<>>
    /\ ~out.result.sent

\* ---------------------------------------------------------------------- C18
\* C18 (as claimed): every command received on the cloud channel is answered
\* with a command_ack carrying its commandId, whatever its type and payload.
C18_EveryCommandAcked ==
    out.op = "command"
        => out.emit = <<[ev |-> "command_ack", commandId |-> out.arg.commandId]>>

\* ---------------------------------------------------------------------- C19
\* C19 (as claimed): the directive_ack of a directive that is handed to the
\* order pipeline is not emitted before the pipeline has returned its result.
C19_AckAfterOrderResult ==
    (out.op = "trade_directive" /\ out.result.submitOrder)
        => \A i \in 1..Len(out.emit) : out.emit[i].ev # "directive_ack"

\* ---------------------------------------------------------------------- C20
\* C20 (as claimed): once the initial connect attempt failed and
\* connectWebSocket rejected, the cloud channel does not become connected.
C20_NoConnectAfterInitialFailure ==
    connectPromise = "rejected"
        => (socket # "connected" /\ cloudConnectionState # "connected")

\* ---------------------------------------------------------------------- C21
\* C21 (as claimed): the cloud connection's 'error' state is terminal: once
\* the connection-state callback has reported 'error', no other state is
\* reported for that connection.
C21_ErrorIsTerminal ==
    [][cloudConnectionState = "error" => cloudConnectionState' = "error"]_vars

\* ---------------------------------------------------------------------- C28
\* C28: a receipt of a trade directive leads to at most one order request:
\* a step issues at most one order request, and only for a handler
\* invocation that was awaiting its token and now awaits the broker's answer;
\* an invocation awaiting the answer never goes back, and a step that ends
\* an invocation with a failure issues no request. Receipts are handled
\* independently: nothing is held back while another is in flight.
C28_AtMostOneOrderPerReceipt ==
    [][ /\ Cardinality(OrdersIn(out'.net)) <= 1
        /\ OrdersIn(out'.net) # {} =>
              \E s \in DOMAIN directives :
                  /\ directives[s].pc \in {"cached", "validate", "login"}
                  /\ directives'[s] = [pc |-> "post", d |-> directives[s].d]
                  /\ out'.arg = directives[s].d
                  /\ \A t \in DOMAIN directives \ {s} : directives'[t] = directives[t]
        /\ \A s \in DOMAIN directives :
              directives[s].pc = "post" => directives'[s].pc \in {"post", "idle"}
        /\ (out'.op \in {"orderResponse", "getAccessToken"} /\ out'.result # NoResult
              /\ ~out'.result.success) => out'.net = <<>>
      ]_vars

\* receipts of the same directive for the same account are all awaiting the
\* broker's answer at the same time, each with its own order request
C28_Witness ==
    /\ \A s \in 1..MaxInFlight :
          directives[s] = [pc |-> "post", d |-> Directive("1", "ENTRY_LONG", "ES", 1)]

\* ---------------------------------------------------------------------- C22
\* C22 (as claimed): while the broker's realtime feed, once connected, has
\* lost its connection and is reconnecting, the orchestrator's broker
\* sub-state is not Connected.
C22_FeedLossLeavesConnected ==
    hub = "reconnecting" => currentState # "connected"

\* ---------------------------------------------------------------------- C29
\* C29 (as claimed): the state delivered to the window is the derived state:
\* an app-state-changed notification and a get-app-state reply say
\* 'connected' only while the cloud channel is connected.
C29_DeliveredStateIsDerived ==
    /\ \A i \in 1..Len(out.ui) :
          (out.ui[i].ch = "app-state-changed" /\ out.ui[i].state = "connected")
              => cloudConnectionState = "connected"
    /\ out.op = "get-app-state"
          => out.result.state = effectiveState(currentState, cloudConnectionState)

\* ---------------------------------------------------------------------- C24
\* C24 (as claimed): after initializeAccounts(list) the ids in the registry
\* are exactly the ids of the list.
C24_InitializeReplacesRegistry ==
    out.op = "initializeAccounts"
        => DOMAIN accounts = {out.arg.list[i].id : i \in DOMAIN out.arg.list}

\* ---------------------------------------------------------------------- C25
\* C25: right after reset() the registry is empty, the master switch is
\* false and canTrade is false for every id; right after topstepClient's
\* shutdown the same holds, the broker token cache is cleared and the client
\* is no longer initialized.
C25_ResetClearsEverything ==
    /\ out.op \in {"reset", "shutdown"}
          => /\ DOMAIN accounts = {}
             /\ ~masterKillSwitch
             /\ \A id \in AccountIds \cup {0} : ~canTrade(id)
    /\ out.op = "shutdown"
          => /\ auth.currentToken = 0
             /\ auth.tokenExpiryTime = -1
             /\ brokerToken = "none"
             /\ ~isInitialized

\* shutdown has just completed on a client whose hub connection was stopped
C25_Witness ==
    /\ out.op = "shutdown"
    /\ hub = "stopped"
    /\ DOMAIN accounts = {}

\* ---------------------------------------------------------------------- C26
\* C26: an account update, a position update, a fill or setAccountTrading
\* for an id that is not in the registry leaves the registry and the master
\* switch as they were, and setAccountTrading reports failure.
C26_UnknownAccountIsNoOp ==
    [][ (/\ out'.op \in {"handleAccountUpdate", "handlePositionUpdate", "addFill",
                         "set-account-trading"}
         /\ out'.arg.accountId \notin DOMAIN accounts)
            => /\ accounts' = accounts
               /\ masterKillSwitch' = masterKillSwitch
               /\ out'.op = "set-account-trading" => ~out'.result.success
      ]_vars

\* an account update with a realized PNL has just been handled for account
\* 1 while the registry does not hold account 1
C26_Witness ==
    /\ out.op = "handleAccountUpdate"
    /\ out.arg = [accountId |-> 1, realizedPnl |-> 1]
    /\ 1 \notin DOMAIN accounts

\* ---------------------------------------------------------------------- C27
\* C27 (as claimed): no event of the realtime feed (account update, position
\* update, fill) changes the tradingEnabled flag of any account.
C27_FeedLeavesTradingEnabled ==
    [][ out'.op \in {"handleAccountUpdate", "handlePositionUpdate", "addFill"}
            => \A id \in DOMAIN accounts :
                  /\ id \in DOMAIN accounts'
                  /\ accounts'[id].tradingEnabled = accounts[id].tradingEnabled
      ]_vars

\* ---------------------------------------------------------------------- C30
\* C30: after initializeAccounts(list) every account of the list has
\* tradingEnabled true, whatever flags its entry carried and whatever the
\* operator had set for that id before.
C30_InitializedAccountsEnabled ==
    [][ out'.op = "initializeAccounts"
            => \A i \in DOMAIN out'.arg.list :
                  /\ out'.arg.list[i].id \in DOMAIN accounts'
                  /\ accounts'[out'.arg.list[i].id].tradingEnabled = TRUE
      ]_vars

\* initializeAccounts has just stored an account whose entry carried
\* tradingEnabled false
C30_Witness ==
    /\ out.op = "initializeAccounts"
    /\ \E i \in DOMAIN out.arg.list :
          /\ "tradingEnabled" \in DOMAIN out.arg.list[i]
          /\ ~out.arg.list[i].tradingEnabled
          /\ accounts[out.arg.list[i].id].tradingEnabled

\* ---------------------------------------------------------------------- C23
\* C23: getCloudTokens() called after storeCloudTokens(botId, at, rt, fp)
\* returned true, and served by the keychain, returns exactly {botId,
\* accessToken: at, refreshToken: rt, deviceFingerprint: fp}, whatever the
\* keychain held before the store.
C23_StoreThenGetRoundTrip ==
    [][ (/\ out.op = "storeCloudTokens"
         /\ out.result.success
         /\ out'.op = "getCloudTokens"
         /\ out'.arg.ok)
            => out'.result = out.arg
      ]_vars

\* getCloudTokens has just returned the four values of a store that
\* replaced every value the keychain held after activation
C23_Witness ==
    /\ out.op = "getCloudTokens"
    /\ out.result = [botId |-> "bot2", accessToken |-> 2, refreshToken |-> 1,
                     deviceFingerprint |-> "fp2"]

\* ---------------------------------------------------------------------- C36
\* C36: the limiter never holds more than maxRequests timestamps; a rejected
\* checkLimit leaves exactly the unexpired timestamps it found, recording
\* nothing; getStats leaves exactly the unexpired timestamps as well and
\* reports used + remaining = limit with used the number of them.
C36_Unexpired(requests, t, windowMs) ==
    SelectSeq(requests, LAMBDA ts : t - ts < windowMs)

C36_LimiterInvariant ==
    [][ /\ Len(limiter'.requests) <= limiter'.maxRequests
        /\ (out'.op = "checkLimit" /\ ~out'.result.ok)
              => limiter'.requests = C36_Unexpired(limiter.requests, now, limiter.windowMs)
        /\ out'.op = "getStats"
              => /\ limiter'.requests =
                        C36_Unexpired(limiter.requests, now, limiter.windowMs)
                 /\ limiter'.maxRequests = limiter.maxRequests
                 /\ limiter'.windowMs = limiter.windowMs
                 /\ out'.result.used = Len(limiter'.requests)
                 /\ out'.result.limit = limiter.maxRequests
                 /\ out'.result.used + out'.result.remaining = out'.result.limit
      ]_vars

\* getStats has just reported a full limiter after more calls of checkLimit
\* than the limit, all within the window of the first
C36_Witness ==
    /\ out.op = "getStats"
    /\ out.result.remaining = 0
    /\ out.result.used = MaxLimit
    /\ limiterHist.calls > MaxLimit
    /\ limiterHist.late = 0

\* ---------------------------------------------------------------------- C37
\* C37: setMasterKillSwitch leaves every account as it was, and
\* setAccountTrading(id, v) leaves the master switch, the set of accounts and
\* every other account as they were and changes nothing of account id but
\* its tradingEnabled.
C37_KillSwitchFrame ==
    [][ /\ out'.op = "set-master-kill-switch"
              => /\ accounts' = accounts
                 /\ masterKillSwitch' = out'.arg.enabled
        /\ out'.op = "set-account-trading"
              => /\ masterKillSwitch' = masterKillSwitch
                 /\ DOMAIN accounts' = DOMAIN accounts
                 /\ \A id \in DOMAIN accounts :
                       accounts'[id] =
                           IF id = out'.arg.accountId
                           THEN [accounts[id] EXCEPT !.tradingEnabled = out'.arg.enabled]
                           ELSE accounts[id]
      ]_vars

\* the master switch has just been switched on again while one account is
\* disabled and another is enabled
C37_Witness ==
    /\ out.op = "set-master-kill-switch"
    /\ out.arg.enabled
    /\ masterKillSwitch
    /\ DOMAIN accounts = {1, 2}
    /\ ~accounts[1].tradingEnabled
    /\ accounts[2].tradingEnabled

\* ---------------------------------------------------------------------- C31
\* C31 (as claimed): an account's stored pnl is the most recent pnl supplied
\* for it: after initializeAccounts(list) an account whose entry carries a
\* pnl stores that pnl, after an AccountUpdate with a realizedPnl for a known
\* account the account stores it, no other operation changes the pnl of an
\* account that stays in the registry, and getCumulativePnl() is the sum of
\* the stored values.
C31_PnlIsLastSupplied ==
    [][ /\ out'.op = "initializeAccounts"
            => \A i \in DOMAIN out'.arg.list :
                  "pnl" \in DOMAIN out'.arg.list[i]
                      => accounts'[out'.arg.list[i].id].pnl = out'.arg.list[i].pnl
        /\ (/\ out'.op = "handleAccountUpdate"
            /\ out'.arg.accountId \in DOMAIN accounts
            /\ "realizedPnl" \in DOMAIN out'.arg)
            => accounts'[out'.arg.accountId].pnl = out'.arg.realizedPnl
        /\ out'.op \notin {"initializeAccounts", "handleAccountUpdate"}
            => \A id \in DOMAIN accounts \cap DOMAIN accounts' :
                  accounts'[id].pnl = accounts[id].pnl
        /\ getCumulativePnl(accounts')
              = SumPnl(accounts', DOMAIN accounts' \ {0})
                  + (IF 0 \in DOMAIN accounts' THEN accounts'[0].pnl ELSE 0)
      ]_vars

\* ---------------------------------------------------------------------- C39
\* C39: topstepClient.initialize called on an initialized client does
\* nothing: the accounts and their flags, the master switch, the token
\* cache, the hub connection and the initialization state stay as they
\* were, and no request is issued.
C39_InitializeTwiceIsNoOp ==
    [][ (out'.op = "initialize" /\ isInitialized)
            => /\ accounts' = accounts
               /\ masterKillSwitch' = masterKillSwitch
               /\ hub' = hub
               /\ brokerToken' = brokerToken
               /\ auth' = auth
               /\ isInitialized'
               /\ initPc' = initPc
               /\ out'.net = <<>>
               /\ out'.ui = <<>>
      ]_vars

\* initialize has just returned on an initialized client whose master switch
\* is off and which has a disabled account and a live hub connection
C39_Witness ==
    /\ out.op = "initialize"
    /\ out.result = [started |-> FALSE]
    /\ isInitialized
    /\ ~masterKillSwitch
    /\ \E id \in DOMAIN accounts : ~accounts[id].tradingEnabled
    /\ hub = "connected"

\* ---------------------------------------------------------------------- C38
\* C38: a cloud command received while the broker client is not initialized
\* leaves the master switch and the accounts as they were and sends no
\* trading-status-changed; it is not applied later either: the master
\* switch only ever changes in the step of a command received while
\* initialized, of the operator's set-master-kill-switch, or of the account
\* load. A trade directive received while not initialized is not handed to
\* submitOrder, issues no request and sends nothing to the window.
C38_IgnoredUntilInitialized ==
    [][ /\ (out'.op = "command" /\ ~isTopstepInitialized)
            => /\ masterKillSwitch' = masterKillSwitch
               /\ accounts' = accounts
               /\ out'.ui = <<>>
        /\ masterKillSwitch' # masterKillSwitch
            => \/ /\ out'.op = "command"
                  /\ isTopstepInitialized
                  /\ out'.arg.command = "SET_TRADING_STATUS"
                  /\ masterKillSwitch' = out'.arg.enabled
               \/ /\ out'.op = "set-master-kill-switch"
                  /\ isTopstepInitialized
                  /\ masterKillSwitch' = out'.arg.enabled
               \/ /\ out'.op = "onAccountsLoaded"
                  /\ masterKillSwitch'
        /\ (out'.op = "trade_directive" /\ ~isTopstepInitialized)
            => /\ ~out'.result.submitOrder
               /\ out'.net = <<>>
               /\ out'.ui = <<>>
               /\ directives' = directives
      ]_vars

\* a SET_TRADING_STATUS command asking for trading on has just been
\* received, and acknowledged, by a client that is not initialized
C38_Witness ==
    /\ out.op = "command"
    /\ out.arg.command = "SET_TRADING_STATUS"
    /\ out.arg.enabled
    /\ ~isTopstepInitialized
    /\ ~masterKillSwitch
    /\ out.emit # <<>>

\* ---------------------------------------------------------------------- C32
\* C32 (as claimed): when the limiter of activateBot, of the token refresh
\* or of sendTelemetry rejects a call, no request is issued and what the
\* caller gets back carries the rate-limit error with the time until the
\* limiter frees a slot.
C32_Surfaced(result, requests, t, windowMs) ==
    /\ "error" \in DOMAIN result
    /\ result.error = "Rate limit exceeded"
    /\ result.resetIn = rlResetIn(rlPrune(requests, t, windowMs), t, windowMs)
C32_RejectionSurfaced ==
    [][ /\ (/\ out'.op = "activateBot"
            /\ ~rlPasses(activation, now, ActivationMaxRequests, ActivationWindow))
            => /\ out'.net = <<>>
               /\ C32_Surfaced(out'.result, activation, now, ActivationWindow)
        /\ (/\ out'.op = "refreshTick"
            /\ ~rlPasses(tokenRefresh, now, TokenRefreshMaxRequests, TokenRefreshWindow))
            => /\ out'.net = <<>>
               /\ C32_Surfaced(out'.result, tokenRefresh, now, TokenRefreshWindow)
        /\ (/\ out'.op = "sendTelemetry"
            /\ telemetryReady(cloudSession)
            /\ ~rlPasses(telemetry.requests, now, TelemetryMaxRequests, TelemetryWindow))
            => /\ out'.net = <<>>
               /\ C32_Surfaced(out'.result, telemetry.requests, now, TelemetryWindow)
      ]_vars

\* ---------------------------------------------------------------------- C34
\* C34 (as claimed): a session whose tokens, bot id and fingerprint are all
\* null (as clearTokens leaves them) keeps them null until setTokens, the
\* token load of initializeCloudApi or an activation sets them, whatever
\* request was awaited when they were cleared; and while they are null no
\* heartbeat is emitted and no telemetry or refresh request is issued.
C34_ClearedStaysCleared ==
    [][ cloudSession = NoSession
            => /\ cloudSession' # NoSession
                    => out'.op \in {"setTokens", "initializeCloudApi", "activateBot",
                                    "activateResponse"}
               /\ out'.op \in {"heartbeat", "sendTelemetry", "telemetryTick",
                                "refreshTick"}
                    => out'.emit = <<>> /\ out'.net = <<>>
      ]_vars

\* ---------------------------------------------------------------------- C35
\* C35 (as claimed): whatever connectWebSocket and disconnectWebSocket calls
\* were made, no socket other than the current one is open: none that
\* connectWebSocket replaced is still connecting, connected or reconnecting,
\* and no connection state is reported by such a socket.
C35_OneLiveSocket ==
    /\ replaced = "none"
    /\ out.op \notin {"replaced_connect", "replaced_disconnect"}

\* ---------------------------------------------------------------------- C33
\* C33 (as claimed): every directive that passed authorization and is being
\* handled eventually concludes, with order-submitted or order-failed; no
\* handling stays suspended forever.
C33_DirectiveConcludes ==
    \A s \in 1..MaxInFlight :
        (directives[s].pc # "idle") ~> (directives[s].pc = "idle")

====
